---- MODULE Spec2Model ----
(***************************************************************************)
(* A model of the analytics core of the MES dashboard:                     *)
(*   analytics.py     MESAnalyzer  (risk assessment, GMP compliance)       *)
(*   mes_features.py  MESFeatures  (batch records, statistics, OEE)        *)
(*                                                                         *)
(* Text.  The source matches keywords with Python's substring test on      *)
(* Chinese labels.  A label is modelled as the sequence of its characters, *)
(* each character written as an ASCII token (its pinyin, with a suffix     *)
(* where two characters share a reading); Latin letters keep their case.   *)
(*                                                                         *)
(* Numbers.  Risk scores are sums of 1, 1.5, 2 and 3, possibly times 1.5:  *)
(* all multiples of 0.25, which binary floating point holds exactly.  They *)
(* are held as integers counting quarter points.                           *)
(***************************************************************************)
EXTENDS Integers, Sequences, FiniteSets, Bags, TLC

VARIABLES
    product_info,     \* the process definition handed to the core
    score_in,         \* the argument of _determine_risk_level: <<num, den>>
    risk_data,        \* <<>> or <<result of assess_process_risk>>
    compliance_data,  \* <<>> or <<result of check_gmp_compliance>>
    level_out,        \* <<>> or <<result of _determine_risk_level>>
    today,            \* what datetime.now() returned last: the day
    np_random,        \* the state of numpy's global generator
    batches_asked,    \* the batch count of the last generate_batch_records
    batch_data,       \* the table generate_batch_records returned last
    raised,           \* the exception the last call let escape, or "none"
    oee_data,         \* <<>> ({}) or <<result of calculate_oee>>
    last_call,        \* the operation that ran last
    runs,             \* how often generate_batch_records has run
    oee_calls,        \* how often calculate_oee has run since
    rng_at_generate,  \* history: the generator before the last generate
    first_batches,    \* history: the records of an earlier generate
    first_oee,        \* history: an earlier calculate_oee right after generate
    analysis_results, \* <<>> or <<result of analyze_batch_trends>>
    quality_report,   \* <<>> or <<result of generate_quality_report>>
    metrics_data,     \* <<>> or <<result of calculate_process_metrics>>
    template_data     \* <<>> or <<result of generate_batch_record_template>>

riskVars == <<score_in, risk_data, compliance_data, level_out>>
batchVars ==
    <<today, np_random, batches_asked, batch_data, raised, oee_data,
      last_call, runs, oee_calls, rng_at_generate, first_batches, first_oee>>
statVars == <<analysis_results, quality_report>>
analyzerVars == <<metrics_data, template_data>>
vars == <<product_info, riskVars, batchVars, statVars, analyzerVars>>

-----------------------------------------------------------------------------
(* Bounds of the model *)

MaxParams == 2        \* parameters of a freely built step
MaxEquip == 1         \* equipment items of a freely built step
MaxSteps == 2         \* steps of a process built from the fixture steps
MaxScore == 12        \* largest score (in points) handed to _determine_risk_level
MaxDen == 3           \* largest divisor of a score (number of steps averaged)
MaxBatches == 2       \* largest batch count asked for
MaxRuns == 2          \* runs of generate_batch_records in one behaviour
MaxOeeCalls == 1      \* runs of calculate_oee on one table
MaxRows == 3          \* records of a table the statistics are taken of
FloatDigits == 2      \* decimal digits of the mantissa of a float
MaxSeries == 10       \* records of a table the outliers are looked for in

-----------------------------------------------------------------------------
(* Text *)

\* Python's `kw in s` on strings: kw occurs in s as a contiguous run.
Contains(kw, s) ==
    \E i \in 1..(Len(s) - Len(kw) + 1) : SubSeq(s, i, i + Len(kw) - 1) = kw

\* The elements of a sequence.
Range(s) == {s[k] : k \in 1..Len(s)}

\* any(keyword in s for keyword in kws)
ContainsAny(kws, s) == \E kw \in kws : Contains(kw, s)

\* The keyword literals of analytics.py and mes_features.py.
KwTemperature == <<"wen", "du_deg">>            \* wen du: temperature
KwPressure == <<"ya", "li_force">>              \* ya li: pressure
KwPH == <<"p", "H">>                            \* the Latin letters pH
KwTime == <<"shi", "jian">>                     \* shi jian: time
KwAseptic == <<"wu_no", "jun">>                 \* wu jun: aseptic / sterility
KwVirus == <<"bing", "du_tox">>                 \* bing du: virus
KwEndotoxin == <<"nei", "du_tox", "su">>        \* nei du su: endotoxin
KwContent == <<"han", "liang">>                 \* han liang: content
KwPurity == <<"chun", "du_deg">>                \* chun du: purity
KwImpurity == <<"za", "zhi">>                   \* za zhi: impurity
KwBioreactor == <<"sheng", "wu_thing", "fan", "ying", "qi">>  \* bioreactor
KwChromatography == <<"ceng", "xi">>            \* ceng xi: chromatography
KwLyophilizer == <<"dong", "gan">>              \* dong gan: freeze drying
KwSterilization == <<"mie", "jun">>             \* mie jun: sterilization
KwFilling == <<"guan", "zhuang">>               \* guan zhuang: filling
KwFiltration == <<"guo", "lv">>                 \* guo lv: filtration
KwCentrifuge == <<"li_sep", "xin">>             \* li xin: centrifuge
KwPurification == <<"chun", "hua">>             \* chun hua: purification
KwFlow == <<"liu", "liang">>                    \* liu liang: flow rate
KwBio == <<"sheng", "wu_thing">>                \* sheng wu: biological

-----------------------------------------------------------------------------
(* Helpers *)

\* dict.get(key): a field that may be absent is <<>> (None) or <<value>>.
Truthy(opt) == opt # <<>> /\ opt[1] # <<>>
GetOr(opt, default) == IF opt = <<>> THEN default ELSE opt[1]

\* Scores are counted in quarter points.
ScoreDen == 2 * 2
Pts(n) == n * ScoreDen
HalfPts(n) == (n * ScoreDen) \div 2

\* round(n / d) to the nearest integer, ties to the even one (Python's round).
RoundHalfEven(n, d) ==
    LET q == n \div d
        r == n % d
    IN  IF 2 * r < d THEN q
        ELSE IF 2 * r > d THEN q + 1
        ELSE IF q % 2 = 0 THEN q ELSE q + 1

-----------------------------------------------------------------------------
(* analytics.py: MESAnalyzer, risk assessment *)

\* The level labels; the colour in brackets is part of the label.
LevelCritical == <<"ji", "gao", "feng", "xian", " ", "(", "hong", "se", ")">>
LevelHigh == <<"gao", "feng", "xian", " ", "(", "cheng", "se", ")">>
LevelMedium == <<"zhong", "feng", "xian", " ", "(", "huang", "se", ")">>
LevelLow == <<"di", "feng", "xian", " ", "(", "lan", "se", ")">>
LevelAcceptable ==
    <<"ke", "jie", "shou", "feng", "xian", " ", "(", "lv_green", "se", ")">>

\* Mutant: the breakpoints compared with > instead of >=.
determine_risk_level_open(num, den) ==
    IF num > Pts(8) * den THEN LevelCritical
    ELSE IF num > Pts(6) * den THEN LevelHigh
    ELSE IF num > Pts(4) * den THEN LevelMedium
    ELSE IF num > Pts(2) * den THEN LevelLow
    ELSE LevelAcceptable

\* _determine_risk_level(score), score = num / den quarter points, den > 0.
determine_risk_level(num, den) ==
    IF num >= Pts(8) * den THEN LevelCritical
    ELSE IF num >= Pts(6) * den THEN LevelHigh
    ELSE IF num >= Pts(4) * den THEN LevelMedium
    ELSE IF num >= Pts(2) * den THEN LevelLow
    ELSE LevelAcceptable

\* Mutant: the sterility group looks for the sterilization keyword (mie jun)
\* where the source has the aseptic one (wu jun).
param_risk_wrong_keyword(param) ==
    (IF ContainsAny({KwTemperature, KwPressure, KwPH, KwTime}, param)
        THEN Pts(1) ELSE 0)
    + (IF ContainsAny({KwSterilization, KwVirus, KwEndotoxin}, param)
        THEN Pts(3) ELSE 0)
    + (IF ContainsAny({KwContent, KwPurity, KwImpurity}, param)
        THEN Pts(2) ELSE 0)

\* The three independent `if`s of the parameter loop.
param_risk(param) ==
    (IF ContainsAny({KwTemperature, KwPressure, KwPH, KwTime}, param)
        THEN Pts(1) ELSE 0)
    + (IF ContainsAny({KwAseptic, KwVirus, KwEndotoxin}, param)
        THEN Pts(3) ELSE 0)
    + (IF ContainsAny({KwContent, KwPurity, KwImpurity}, param)
        THEN Pts(2) ELSE 0)

\* The if / elif / else of the equipment loop.
\* The equipment groups tested in the other order.
equip_risk_filling_first(equip) ==
    IF ContainsAny({KwFilling, KwFiltration, KwCentrifuge}, equip)
    THEN HalfPts(3)
    ELSE IF ContainsAny({KwBioreactor, KwChromatography, KwLyophilizer,
                         KwSterilization}, equip)
    THEN Pts(2)
    ELSE Pts(1)

equip_risk(equip) ==
    IF ContainsAny({KwBioreactor, KwChromatography, KwLyophilizer,
                    KwSterilization}, equip)
        THEN Pts(2)
    ELSE IF ContainsAny({KwFilling, KwFiltration, KwCentrifuge}, equip)
        THEN HalfPts(3)
    ELSE Pts(1)

\* _evaluate_step_risk_factors(step)
evaluate_step_risk_factors(step) ==
    LET params == step.params
        equipment == step.equip
        after_params[k \in 0..Len(params)] ==
            IF k = 0 THEN 0 ELSE after_params[k - 1] + param_risk(params[k])
        after_equip[k \in 0..Len(equipment)] ==
            IF k = 0 THEN after_params[Len(params)]
            ELSE after_equip[k - 1] + equip_risk(equipment[k])
    IN  after_equip[Len(equipment)]

\* Mutant: the sterilization keyword is missing from the list.
is_critical_step_short_list(step_name) ==
    ContainsAny({KwAseptic, KwFilling, KwChromatography, KwVirus}, step_name)

\* The name test of a critical step.
is_critical_step(step_name) ==
    ContainsAny({KwSterilization, KwAseptic, KwFilling, KwChromatography,
                 KwVirus}, step_name)

\* A step_risk without the weight of a critical step.
step_risk_unweighted(step) == evaluate_step_risk_factors(step)

\* step_risk after `step_risk *= 1.5` for a critical step.
step_risk(step) ==
    LET base == evaluate_step_risk_factors(step)
    IN  IF is_critical_step(step.name) THEN (base * 3) \div 2 ELSE base

\* A threshold test that takes the threshold in.
is_high_risk_inclusive(risk) == risk >= Pts(5)

\* `step_risk > 5`
is_high_risk(risk) == risk > Pts(5)

\* The list `factors` of _identify_risk_factors before set(): one label per
\* name test that holds and per keyword of each parameter.  Python does not
\* fix the order list(set(...)) gives, so lists of labels are held as bags.
collected_risk_factors(step) ==
    LET ps == step.params
        of_param(param) ==
            (IF Contains(KwTemperature, param)
                THEN SetToBag({"temperature_control_risk"}) ELSE EmptyBag)
            (+) (IF Contains(KwPressure, param)
                THEN SetToBag({"pressure_control_risk"}) ELSE EmptyBag)
            (+) (IF Contains(KwPH, param)
                THEN SetToBag({"pH_control_risk"}) ELSE EmptyBag)
        of_params[k \in 0..Len(ps)] ==
            IF k = 0 THEN EmptyBag ELSE of_params[k - 1] (+) of_param(ps[k])
    IN  (IF ContainsAny({KwSterilization, KwAseptic}, step.name)
            THEN SetToBag({"aseptic_operation_risk"}) ELSE EmptyBag)
        (+) (IF ContainsAny({KwVirus, KwBio}, step.name)
            THEN SetToBag({"biosafety_risk"}) ELSE EmptyBag)
        (+) of_params[Len(ps)]

\* _identify_risk_factors(step): list(set(factors))
identify_risk_factors(step) ==
    SetToBag(BagToSet(collected_risk_factors(step)))

\* `"..." in risk_level` of _generate_risk_recommendations
KwLevelCritical == <<"ji", "gao", "feng", "xian">>
KwLevelHigh == <<"gao", "feng", "xian">>

\* A _generate_risk_recommendations without the `if critical_steps:` guard.
generate_risk_recommendations_unguarded(risk_level, critical_steps) ==
    LET shown == SubSeq(critical_steps, 1,
                        IF Len(critical_steps) < 3 THEN Len(critical_steps) ELSE 3)
    IN  (IF Contains(KwLevelCritical, risk_level) \/ Contains(KwLevelHigh, risk_level)
            THEN << <<"validate_process">>, <<"add_control_points">>,
                    <<"stricter_change_control">> >>
            ELSE <<>>)
        \o << <<"monitor_critical_steps", Len(critical_steps)>> >>
        \o [k \in 1..Len(shown) |->
                <<"step", shown[k].step_number, shown[k].step>>]
        \o << <<"periodic_quality_review">>, <<"train_operators">> >>

\* _generate_risk_recommendations(risk_level, critical_steps)
generate_risk_recommendations(risk_level, critical_steps) ==
    LET shown == SubSeq(critical_steps, 1,
                        IF Len(critical_steps) < 3 THEN Len(critical_steps) ELSE 3)
    IN  (IF Contains(KwLevelCritical, risk_level) \/ Contains(KwLevelHigh, risk_level)
            THEN << <<"validate_process">>, <<"add_control_points">>,
                    <<"stricter_change_control">> >>
            ELSE <<>>)
        \o (IF critical_steps # <<>>
            THEN << <<"monitor_critical_steps", Len(critical_steps)>> >>
                 \o [k \in 1..Len(shown) |->
                        <<"step", shown[k].step_number, shown[k].step>>]
            ELSE <<>>)
        \o << <<"periodic_quality_review">>, <<"train_operators">> >>

\* assess_process_risk(steps)
assess_process_risk(steps) ==
    LET n == Len(steps)
        total[k \in 0..n] ==
            IF k = 0 THEN 0 ELSE total[k - 1] + step_risk(steps[k])
        critical[k \in 0..n] ==
            IF k = 0 THEN <<>>
            ELSE IF is_critical_step(steps[k].name)
                THEN Append(critical[k - 1],
                            [step |-> steps[k].name, step_number |-> k,
                             risk_level |-> "critical",
                             risk_score |-> step_risk(steps[k])])
                ELSE critical[k - 1]
        factors[k \in 0..n] ==
            IF k = 0 THEN <<>>
            ELSE IF is_high_risk(step_risk(steps[k]))
                THEN Append(factors[k - 1],
                            [step |-> steps[k].name,
                             risk_score |-> step_risk(steps[k]),
                             factors |-> identify_risk_factors(steps[k])])
                ELSE factors[k - 1]
        den == IF n > 1 THEN n ELSE 1
        level == determine_risk_level(total[n], den)
    IN  [total_risk_score |-> total[n],
         \* round(avg_risk, 2), in hundredths of a point
         average_risk_score |-> RoundHalfEven(total[n] * 100, ScoreDen * den),
         risk_level |-> level,
         critical_steps |-> critical[n],
         high_risk_factors |-> factors[n],
         recommendations |-> generate_risk_recommendations(level, critical[n])]

-----------------------------------------------------------------------------
(* analytics.py: MESAnalyzer, GMP compliance *)

\* A parameter test that takes the aseptic keyword only.
has_sterility_param_aseptic_only(params) ==
    \E k \in 1..Len(params) : Contains(KwAseptic, params[k])

\* any("wu jun" in param or "mie jun" in param for param in params)
has_sterility_param(params) ==
    \E k \in 1..Len(params) :
        Contains(KwAseptic, params[k]) \/ Contains(KwSterilization, params[k])

\* any("ya li" in param or "liu liang" in param for param in params)
has_flow_param(params) ==
    \E k \in 1..Len(params) :
        Contains(KwPressure, params[k]) \/ Contains(KwFlow, params[k])

\* Mutant: the separation finding carries the severity of the sterility one.
step_findings_copied_severity(step) ==
    (IF ContainsAny({KwSterilization, KwAseptic}, step.name)
        /\ ~has_sterility_param(step.params)
        THEN << [step |-> step.name, issue |-> "no_sterility_parameter",
                 severity |-> "severe",
                 recommendation |-> "add_sterility_monitoring"] >>
        ELSE <<>>)
    \o (IF ContainsAny({KwFiltration, KwChromatography, KwPurification}, step.name)
        /\ ~has_flow_param(step.params)
        THEN << [step |-> step.name, issue |-> "no_process_control_parameter",
                 severity |-> "severe",
                 recommendation |-> "add_pressure_or_flow_monitoring"] >>
        ELSE <<>>)

\* The two rules of the loop body taken in the other order.
step_findings_separation_first(step) ==
    (IF ContainsAny({KwFiltration, KwChromatography, KwPurification}, step.name)
        /\ ~has_flow_param(step.params)
        THEN << [step |-> step.name, issue |-> "no_process_control_parameter",
                 severity |-> "moderate",
                 recommendation |-> "add_pressure_or_flow_monitoring"] >>
        ELSE <<>>)
    \o (IF ContainsAny({KwSterilization, KwAseptic}, step.name)
        /\ ~has_sterility_param(step.params)
        THEN << [step |-> step.name, issue |-> "no_sterility_parameter",
                 severity |-> "severe",
                 recommendation |-> "add_sterility_monitoring"] >>
        ELSE <<>>)

\* The findings one step adds, in the order the loop body appends them.
step_findings(step) ==
    (IF ContainsAny({KwSterilization, KwAseptic}, step.name)
        /\ ~has_sterility_param(step.params)
        THEN << [step |-> step.name, issue |-> "no_sterility_parameter",
                 severity |-> "severe",
                 recommendation |-> "add_sterility_monitoring"] >>
        ELSE <<>>)
    \o (IF ContainsAny({KwFiltration, KwChromatography, KwPurification}, step.name)
        /\ ~has_flow_param(step.params)
        THEN << [step |-> step.name, issue |-> "no_process_control_parameter",
                 severity |-> "moderate",
                 recommendation |-> "add_pressure_or_flow_monitoring"] >>
        ELSE <<>>)

\* The step reference of the missing-description finding.
WholeProcess == <<"zheng", "ti", "gong", "yi">>

\* Mutant: a description of blanks only counts as missing.
description_findings_stripped(info) ==
    IF ~Truthy(info.description) \/ \A k \in 1..Len(info.description[1]) :
                                        info.description[1][k] = " "
        THEN << [step |-> WholeProcess, issue |-> "no_description",
                 severity |-> "moderate",
                 recommendation |-> "add_description"] >>
        ELSE <<>>

\* The finding appended when product_info.get("description") is falsy.
description_findings(info) ==
    IF ~Truthy(info.description)
        THEN << [step |-> WholeProcess, issue |-> "no_description",
                 severity |-> "moderate",
                 recommendation |-> "add_description"] >>
        ELSE <<>>

\* sum(1 for item in compliance_items if item["severity"] == sev)
count_severity(items, sev) ==
    Cardinality({k \in 1..Len(items) : items[k].severity = sev})

\* Mutant: any finding at all makes the process need improvement.
overall_status_any_finding(severity_counts) ==
    IF severity_counts.severe = 0 /\ severity_counts.moderate = 0
        THEN "compliant" ELSE "needs_improvement"

\* overall_status from the severity counts
overall_status(severity_counts) ==
    IF severity_counts.severe = 0 THEN "compliant" ELSE "needs_improvement"

\* check_gmp_compliance(product_info)
check_gmp_compliance(info) ==
    LET steps == GetOr(info.steps, <<>>)
        n == Len(steps)
        found[k \in 0..n] ==
            IF k = 0 THEN <<>> ELSE found[k - 1] \o step_findings(steps[k])
        items == found[n] \o description_findings(info)
        counts == [severe |-> count_severity(items, "severe"),
                   moderate |-> count_severity(items, "moderate"),
                   minor |-> count_severity(items, "minor")]
        first5 == SubSeq(items, 1, IF Len(items) < 5 THEN Len(items) ELSE 5)
    IN  [gmp_classification |-> GetOr(info.gmp_class, "unclassified"),
         overall_status |-> overall_status(counts),
         compliance_items |-> items,
         severity_counts |-> counts,
         recommendations |-> [k \in 1..Len(first5) |-> first5[k].recommendation]]

-----------------------------------------------------------------------------
(* analytics.py: MESAnalyzer.calculate_process_metrics *)

KwCritical == <<"guan", "jian_key">>            \* guan jian: critical

\* The unit markers of a duration string.
KwDay == <<"tian">>                             \* tian: day
KwHour == <<"h">>

\* str(n) and float(str), on runs of digits.
Digits == <<"0", "1", "2", "3", "4", "5", "6", "7", "8", "9">>
DigitValue(c) == (CHOOSE k \in 1..10 : Digits[k] = c) - 1
IsDigit(c) == \E k \in 1..10 : Digits[k] = c

\* str.replace(c, ""), for a one-character c
Without(str, c) == SelectSeq(str, LAMBDA x : x # c)

RECURSIVE digits_value(_)
digits_value(str) ==
    IF str = <<>> THEN 0
    ELSE 10 * digits_value(SubSeq(str, 1, Len(str) - 1)) + DigitValue(str[Len(str)])

\* float(str): <<value>> for a run of digits, <<>> where Python raises
\* ValueError.
parse_float(str) ==
    IF str # <<>> /\ \A k \in 1..Len(str) : IsDigit(str[k])
        THEN <<digits_value(str)>> ELSE <<>>

\* The time_value one step adds to total_time, in hundredths of an hour:
\* <<0>> without the duration key, <<>> where float() raises outside the try.
step_time_value(step) ==
    IF step.time = <<>> THEN <<0>>
    ELSE LET time_str == step.time[1]
             number(unit) == parse_float(Without(Without(Without(time_str, unit), "("), ")"))
         IN  IF Contains(KwDay, time_str)
                THEN (IF number("tian") = <<>> THEN <<>>
                      ELSE <<number("tian")[1] * 24 * 100>>)
             ELSE IF Contains(KwHour, time_str)
                THEN (IF number("h") = <<>> THEN <<>>
                      ELSE <<number("h")[1] * 100>>)
             ELSE IF parse_float(time_str) = <<>> THEN <<0>>
             ELSE <<parse_float(time_str)[1] * 100>>

\* The weight of a parameter and of an equipment item in the complexity.
complexity_param(param) ==
    IF ContainsAny({KwAseptic, KwVirus, KwEndotoxin, KwCritical}, param) THEN 3
    ELSE IF ContainsAny({KwTemperature, KwPH, KwPressure, KwContent}, param) THEN 2
    ELSE 1
complexity_equip(equip) ==
    IF ContainsAny({KwBioreactor, KwChromatography, KwLyophilizer}, equip) THEN 3
    ELSE IF ContainsAny({KwFilling, KwSterilization, KwFiltration}, equip) THEN 2
    ELSE 1

\* _calculate_complexity_score: 0.5 a step, 0.3 a parameter point, 0.2 an
\* equipment point, in hundredths.
calculate_complexity_score(steps) ==
    LET of_params(ps) ==
            LET acc[k \in 0..Len(ps)] ==
                    IF k = 0 THEN 0 ELSE acc[k - 1] + complexity_param(ps[k])
            IN  acc[Len(ps)]
        of_equip(es) ==
            LET acc[k \in 0..Len(es)] ==
                    IF k = 0 THEN 0 ELSE acc[k - 1] + complexity_equip(es[k])
            IN  acc[Len(es)]
        critical_params[k \in 0..Len(steps)] ==
            IF k = 0 THEN 0 ELSE critical_params[k - 1] + of_params(steps[k].params)
        equipment_score[k \in 0..Len(steps)] ==
            IF k = 0 THEN 0 ELSE equipment_score[k - 1] + of_equip(steps[k].equip)
    IN  Len(steps) * 50 + critical_params[Len(steps)] * 30
            + equipment_score[Len(steps)] * 20

\* calculate_process_metrics(steps).  raised names the exception that
\* escapes, if any; result is <<>> then, else <<the dict>>.  Times and
\* averages in hundredths; the equipment list as the set it is made from.
calculate_process_metrics(steps) ==
    LET total_params[k \in 0..Len(steps)] ==
            IF k = 0 THEN 0 ELSE total_params[k - 1] + Len(steps[k].params)
        unique_equipment == UNION {Range(steps[k].equip) : k \in 1..Len(steps)}
        total_time[k \in 0..Len(steps)] ==
            IF k = 0 THEN 0 ELSE total_time[k - 1] + step_time_value(steps[k])[1]
    IN  IF \E k \in 1..Len(steps) : step_time_value(steps[k]) = <<>>
            THEN [raised |-> "ValueError", result |-> <<>>]
        ELSE [raised |-> "none",
              result |-> << [total_steps |-> Len(steps),
                             total_parameters |-> total_params[Len(steps)],
                             unique_equipment |-> Cardinality(unique_equipment),
                             total_time_hours |-> total_time[Len(steps)],
                             avg_params_per_step |->
                                IF Len(steps) > 0
                                    THEN RoundHalfEven(total_params[Len(steps)] * 100,
                                                       Len(steps))
                                    ELSE 0,
                             complexity_score |-> calculate_complexity_score(steps),
                             equipment_list |-> unique_equipment] >>]

-----------------------------------------------------------------------------
(* analytics.py: MESAnalyzer.generate_batch_record_template *)

\* The blank field record of a parameter.
BlankParameter ==
    [target_value |-> <<>>, actual_value |-> <<>>, lower_limit |-> <<>>,
     upper_limit |-> <<>>, unit |-> <<>>]

\* The template of step k: its parameters dict is keyed by the labels, so a
\* label that occurs twice has one entry.
step_template(step, k) ==
    [step_number |-> k,
     step_name |-> step.name,
     parameters |-> [label \in Range(step.params) |-> BlankParameter],
     equipment |-> step.equip,
     time_required |-> GetOr(step.time, <<>>),
     operator_signature |-> <<>>,
     supervisor_signature |-> <<>>,
     qc_check |-> <<>>,
     remarks |-> <<>>]

\* A generate_batch_record_template that files the blank duration it shows
\* in the step it read it from.
generate_batch_record_template_in_place(info) ==
    LET steps == GetOr(info.steps, <<>>)
    IN  [template |->
            [header |-> [product_name |-> <<>>, batch_number |-> <<>>,
                         manufacturing_date |-> <<>>, expiry_date |-> <<>>,
                         batch_size |-> <<>>, line |-> <<>>, shift |-> <<>>],
             steps |-> [k \in 1..Len(steps) |-> step_template(steps[k], k)]],
         product_info |->
            IF info.steps = <<>> THEN info
            ELSE [info EXCEPT !.steps =
                    << [k \in 1..Len(steps) |->
                        [steps[k] EXCEPT !.time =
                            <<GetOr(steps[k].time, <<>>)>>]] >>]]

\* generate_batch_record_template(product_info): template is the dict that
\* is returned, product_info the argument as the call leaves it.  Every
\* store of the function goes into a dict or a list the call has made
\* (batch_template, step_template, its parameters); the equipment list of a
\* step is put into the template as it is, not copied, and not written to.
generate_batch_record_template(info) ==
    LET steps == GetOr(info.steps, <<>>)
    IN  [template |->
            [header |-> [product_name |-> <<>>, batch_number |-> <<>>,
                         manufacturing_date |-> <<>>, expiry_date |-> <<>>,
                         batch_size |-> <<>>, line |-> <<>>, shift |-> <<>>],
             steps |-> [k \in 1..Len(steps) |-> step_template(steps[k], k)]],
         product_info |-> info]

-----------------------------------------------------------------------------
(* The inputs the core is run on *)

SeqsUpTo(S, n) == UNION {[1..k -> S] : k \in 0..n}

\* Step names: no keyword; sterilization; filtration; aseptic filtration
\* (both compliance rules); chromatography (critical and a separation).
NameMixing == <<"hun", "he">>
NameSterilization == KwSterilization
NameFiltration == KwFiltration
NameAsepticFiltration == KwAseptic \o KwFiltration
NameChromatography == KwChromatography
StepNames ==
    {NameMixing, NameSterilization, NameFiltration, NameAsepticFiltration,
     NameChromatography}

\* Parameter labels.
ParamTemperature == KwTemperature \o <<"kong", "zhi">>      \* temperature control
ParamSterility == KwAseptic \o <<"bao", "zheng">>           \* sterility assurance
ParamPressure == KwPressure
ParamPurity == KwPurity
ParamSpeed == <<"zhuan", "su">>                             \* stirring speed
ParamSterilizationTime == KwSterilization \o KwTime         \* sterilization time
ParamVirusTemperature == KwVirus \o <<"mie", "huo">> \o KwTemperature
ParamLabels ==
    {ParamTemperature, ParamSterility, ParamPressure, ParamPurity, ParamSpeed,
     ParamSterilizationTime, ParamVirusTemperature}

\* Equipment labels.
EquipSterilizer == KwSterilization \o <<"gui">>             \* sterilizer
EquipFilter == KwFiltration \o <<"qi">>                     \* filter
EquipTank == <<"chu", "guan">>                              \* storage tank
EquipLabels == {EquipSterilizer, EquipFilter, EquipTank}
\* A label with a keyword of both equipment groups: sterilizing filter.
EquipSterilizingFilter == KwSterilization \o KwFiltration \o <<"qi">>

\* A step dict: name, parameter labels, equipment labels, and the value of
\* its duration key (<<>> when the step has no such key).
StepT(name, params, equip, time) ==
    [name |-> name, params |-> params, equip |-> equip, time |-> time]
Step(name, params, equip) == StepT(name, params, equip, <<>>)

\* Every step that can be built from the labels, within the bounds.
FreeSteps ==
    {Step(n, ps, es) :
        n \in StepNames,
        ps \in SeqsUpTo(ParamLabels, MaxParams),
        es \in SeqsUpTo(EquipLabels, MaxEquip)}

\* A few whole steps, from which the processes of several steps are built.
FixtureSteps ==
    {Step(NameMixing, <<ParamSpeed>>, <<EquipTank>>),
     Step(NameSterilization, <<ParamTemperature, ParamSterility>>,
          <<EquipSterilizer>>),
     Step(NameSterilization, <<ParamTemperature, ParamTemperature>>,
          <<EquipSterilizer>>),
     Step(NameFiltration, <<ParamPurity>>, <<EquipFilter>>),
     Step(NameAsepticFiltration, <<>>, <<EquipFilter>>),
     Step(NameMixing, <<ParamVirusTemperature>>, <<EquipSterilizingFilter>>),
     Step(NameChromatography, <<ParamPressure, ParamPurity>>, <<EquipTank>>)}

\* description: key absent, empty, blank, or text.
DescriptionText == <<"kang", "sheng", "su", " ", "yuan", "liao", "yao">>
DescriptionBlank == <<" ">>
Descriptions == {<<>>, << <<>> >>, <<DescriptionBlank>>, <<DescriptionText>>}

Product(d, ss) ==
    [description |-> d, steps |-> <<ss>>, gmp_class |-> <<"high_risk">>]

\* Processes of one freely built step, of fixture steps, and of no step (the
\* steps key empty or absent).
ProductInfos ==
    {Product(<<DescriptionText>>, <<s>>) : s \in FreeSteps}
    \cup {Product(d, ss) :
            d \in Descriptions, ss \in SeqsUpTo(FixtureSteps, MaxSteps)}
    \cup {[description |-> d, steps |-> <<>>, gmp_class |-> <<>>] :
            d \in Descriptions}

NoProduct == [description |-> <<>>, steps |-> <<>>, gmp_class |-> <<>>]

-----------------------------------------------------------------------------
(* The risk assessor and the compliance checker run on a process *)

\* The synthesizer has not run.
BatchIdle ==
    /\ batches_asked = 0
    /\ batch_data = <<>>
    /\ raised = "none"
    /\ oee_data = <<>>
    /\ last_call = "none"
    /\ runs = 0
    /\ oee_calls = 0
    /\ rng_at_generate = 0
    /\ first_batches = <<>>
    /\ first_oee = <<>>
    /\ analysis_results = <<>>
    /\ quality_report = <<>>
    /\ metrics_data = <<>>
    /\ template_data = <<>>

\* The analyzer has not run.
RiskIdle ==
    /\ score_in = <<0, 1>>
    /\ risk_data = <<>>
    /\ compliance_data = <<>>
    /\ level_out = <<>>

InitRisk ==
    /\ product_info \in ProductInfos
    /\ RiskIdle
    /\ today = 0
    /\ np_random = 0
    /\ BatchIdle

\* app.py: steps = product_info.get(...); MESAnalyzer.assess_process_risk(steps)
AssessProcessRisk ==
    /\ risk_data' = <<assess_process_risk(GetOr(product_info.steps, <<>>))>>
    /\ UNCHANGED <<product_info, score_in, compliance_data, level_out, batchVars, statVars, analyzerVars>>

\* MESAnalyzer.check_gmp_compliance(product_info)
CheckGmpCompliance ==
    /\ compliance_data' = <<check_gmp_compliance(product_info)>>
    /\ UNCHANGED <<product_info, score_in, risk_data, level_out, batchVars, statVars, analyzerVars>>

NextRisk == AssessProcessRisk \/ CheckGmpCompliance

SpecRisk == InitRisk /\ [][NextRisk]_vars

-----------------------------------------------------------------------------
(* _determine_risk_level run on a score *)

InitLevel ==
    /\ product_info = NoProduct
    /\ score_in \in (0..Pts(MaxScore)) \X (1..MaxDen)
    /\ risk_data = <<>>
    /\ compliance_data = <<>>
    /\ level_out = <<>>
    /\ today = 0
    /\ np_random = 0
    /\ BatchIdle

DetermineRiskLevel ==
    /\ level_out' = <<determine_risk_level(score_in[1], score_in[2])>>
    /\ UNCHANGED <<product_info, score_in, risk_data, compliance_data, batchVars, statVars, analyzerVars>>

NextLevel == DetermineRiskLevel

SpecLevel == InitLevel /\ [][NextLevel]_vars

-----------------------------------------------------------------------------
(* numpy's global random generator, as mes_features.py uses it *)

(* np.random is one generator shared by the whole process.  Its state is   *)
(* modelled as a position on a fixed cycle: np.random.seed(n) jumps to the *)
(* position n fixes, and every draw reads the position and moves one on.   *)
(* What a draw returns is a function of the position alone.                *)

RngPeriod == 16       \* length of the cycle

rng_seed(n) == (7 * n + 1) % RngPeriod
rng_next(s) == (5 * s + 3) % RngPeriod

RECURSIVE rng_skip(_, _)
rng_skip(s, k) == IF k = 0 THEN s ELSE rng_skip(rng_next(s), k - 1)

\* np.random.choice(options): one of the options.
rng_choice(options, s) == options[(s % Len(options)) + 1]

\* round(np.random.uniform(lo, hi), d), in tenths.  The draw is
\* lo + (hi - lo) * u with 0 <= u < 1, and rounding takes a u next to 1 to hi
\* itself.  The positions of the cycle are spread over UniformLevels values
\* of u, the two ends among them, so that draws in a row can be at an end.
UniformLevels == 4
\* A draw from a range that starts ten points lower.
rng_uniform_from_below(lo, hi, s) ==
    LET level == (s * UniformLevels) \div RngPeriod
    IN  (lo - 10) * 10
            + RoundHalfEven((hi - lo + 10) * 10 * level, UniformLevels - 1)
rng_uniform(lo, hi, s) ==
    LET level == (s * UniformLevels) \div RngPeriod
    IN  lo * 10 + RoundHalfEven((hi - lo) * 10 * level, UniformLevels - 1)

\* np.random.random() > 0.1
rng_above_tenth(s) == 10 * s > RngPeriod

\* np.random.choice(options, p=[0.95, 0.04, 0.01])
rng_choice_weighted(options, s) ==
    IF 100 * s < 95 * RngPeriod THEN options[1]
    ELSE IF 100 * s < 99 * RngPeriod THEN options[2]
    ELSE options[3]

\* np.random.normal(mu, sigma), mu and sigma in hundredths and the result in
\* thousandths: mu + sigma * z with z from -2.5 to 2.5 in tenths.
rng_normal(mu, sigma, s) ==
    LET z10 == ((50 * s) \div (RngPeriod - 1)) - 25
    IN  mu * 10 + sigma * z10

-----------------------------------------------------------------------------
(* Dates: a datetime is held as its day, counted from 1 January 2024 *)

IsLeapYear(y) == (y % 4 = 0 /\ y % 100 # 0) \/ y % 400 = 0
DaysInYear(y) == IF IsLeapYear(y) THEN 366 ELSE 365
DaysInMonth(y, m) ==
    IF m = 2 THEN (IF IsLeapYear(y) THEN 29 ELSE 28)
    ELSE IF m \in {4, 6, 9, 11} THEN 30 ELSE 31

RECURSIVE civil_year(_, _)
civil_year(y, d) ==
    IF d < DaysInYear(y) THEN <<y, d>> ELSE civil_year(y + 1, d - DaysInYear(y))

RECURSIVE civil_month(_, _, _)
civil_month(y, m, d) ==
    IF d < DaysInMonth(y, m) THEN <<y, m, d + 1>>
    ELSE civil_month(y, m + 1, d - DaysInMonth(y, m))

\* datetime.strftime("%Y-%m-%d"): the year, month and day of the date.
strftime(day) ==
    LET yd == civil_year(2024, day) IN civil_month(yd[1], 1, yd[2])

\* datetime + timedelta(days=n)
plus_days(day, n) == day + n

-----------------------------------------------------------------------------
(* mes_features.py: MESFeatures.generate_batch_records *)

\* str.lower() on the Latin letters the labels hold.
LowerChar(c) ==
    IF c = "H" THEN "h" ELSE IF c = "P" THEN "p" ELSE IF c = "C" THEN "c" ELSE c
Lower(str) == [k \in 1..Len(str) |-> LowerChar(str[k])]

\* str.replace(' ', '_')
BlanksToUnderscores(str) ==
    [k \in 1..Len(str) |-> IF str[k] = " " THEN "_" ELSE str[k]]

\* param[:10]
First10(str) == SubSeq(str, 1, IF Len(str) < 10 THEN Len(str) ELSE 10)

\* str.split(): the maximal runs of characters that are not blanks.
RECURSIVE split(_)
split(str) ==
    IF str = <<>> THEN <<>>
    ELSE IF str[1] = " " THEN split(Tail(str))
    ELSE LET run == CHOOSE k \in 1..Len(str) :
                        /\ \A j \in 1..k : str[j] # " "
                        /\ (k = Len(str) \/ str[k + 1] = " ")
         IN  <<SubSeq(str, 1, run)>> \o split(SubSeq(str, run + 1, Len(str)))

\* Decimal digits.
\* str(n) for n >= 0.
RECURSIVE int_str(_)
int_str(n) ==
    IF n < 10 THEN <<Digits[n + 1]>>
    ELSE Append(int_str(n \div 10), Digits[(n % 10) + 1])

\* f"{n:0Wd}": str(n) padded with zeros on the left to width W.
RECURSIVE zero_pad(_, _)
zero_pad(str, width) ==
    IF Len(str) >= width THEN str ELSE zero_pad(<<"0">> \o str, width)

\* round(x, 1) and round(x, 2) of x >= 0 in thousandths, in hundredths.
Round1(x) == RoundHalfEven(x, 100) * 10
Round2(x) == RoundHalfEven(x, 10)

Abs(x) == IF x < 0 THEN -x ELSE x

\* The duration used when the step has no such key: "4h".
DefaultTime == <<"4", "h">>

\* target_time of the duration branch, in hundredths of an hour; 4.0 when the
\* text has no unit marker or float() raises.
target_time(step) ==
    LET time_str == GetOr(step.time, DefaultTime)
        number(unit) == parse_float(Without(Without(Without(time_str, unit), "("), ")"))
    IN  IF Contains(KwDay, time_str)
            THEN (IF number("tian") = <<>> THEN 400 ELSE number("tian")[1] * 24 * 100)
        ELSE IF Contains(KwHour, time_str)
            THEN (IF number("h") = <<>> THEN 400 ELSE number("h")[1] * 100)
        ELSE 400

\* The branch of the if / elif chain a parameter label takes.
param_kind(param) ==
    IF Contains(KwTemperature, param) THEN "temperature"
    ELSE IF Contains(KwPressure, param) THEN "pressure"
    ELSE IF Contains(KwPH, Lower(param)) THEN "acidity"
    ELSE IF Contains(KwTime, param) THEN "duration"
    ELSE "other"

Status(in_band) == IF in_band THEN "normal" ELSE "deviated"

\* The duration band in doubles.  abs(actual - target_time) <=
\* target_time * 0.15 compares two rounded numbers: actual is the double
\* nearest to k / 10, 0.15 is the double (3 * 2^53 - 1) / 5 * 2^-55, and the
\* product is rounded again.  Where |actual - target| and 15% of the target
\* differ as real numbers they differ by at least 0.05 and the doubles
\* compare as the real numbers do.  Where they are equal the three rounding
\* errors decide; they are worked out here with remainders, for a target of
\* t whole hours (t even, or there is no such actual) and actual above
\* (upper) or below it.
RECURSIVE Pow2(_)
Pow2(k) == IF k = 0 THEN 1 ELSE 2 * Pow2(k - 1)

\* 2^e mod m
RECURSIVE pow2_mod(_, _)
pow2_mod(e, m) == IF e = 0 THEN 1 % m ELSE (2 * pow2_mod(e - 1, m)) % m

\* floor(log2(num / den)) for num >= den > 0
RECURSIVE floor_log2(_, _)
floor_log2(num, den) == IF num >= 2 * den THEN 1 + floor_log2(num, 2 * den) ELSE 0

\* t = odd_part(t) * 2^two_exponent(t)
RECURSIVE odd_part(_)
odd_part(t) == IF t % 2 = 0 THEN odd_part(t \div 2) ELSE t
RECURSIVE two_exponent(_)
two_exponent(t) == IF t % 2 = 0 THEN 1 + two_exponent(t \div 2) ELSE 0

\* The number of bits the product of the odd part T and the mantissa of 0.15
\* has beyond 53: the least j with 3 T < 5 * 2^j.
RECURSIVE extra_bits(_, _)
extra_bits(T, j) == IF 3 * T >= 5 * Pow2(j) THEN extra_bits(T, j + 1) ELSE j

double_tie_in_band(t, upper) ==
    LET k == IF upper THEN (23 * t) \div 2 ELSE (17 * t) \div 2
        E == floor_log2(k, 10)
        s == 52 - E
        \* the error of the double nearest to k / 10, in units of 2^-s / 10
        r == ((k % 10) * pow2_mod(s, 10)) % 10
        d1 == IF r < 5 THEN -r ELSE 10 - r
        T == odd_part(t)
        u == two_exponent(t)
        j == extra_bits(T, 0)
        \* the mantissa of 0.15 modulo 2^(j+1): 5 m = -1
        m == CHOOSE x \in 0..(Pow2(j + 1) - 1) : (5 * x + 1) % Pow2(j + 1) = 0
        p == (T * m) % Pow2(j + 1)
        rho == p % Pow2(j)
        \* the error of rounding the product to 53 bits, in units of 2^(u-55)
        d3 == IF j = 0 THEN 0
              ELSE IF 2 * rho < Pow2(j) THEN -rho
              ELSE IF 2 * rho > Pow2(j) THEN Pow2(j) - rho
              ELSE IF p < Pow2(j) THEN -rho ELSE Pow2(j) - rho
        g == 3 + E - u
        lhs == IF upper THEN d1 ELSE -d1
        rhs == 2 * (5 * d3 - T)
    IN  IF g >= 0 THEN lhs * Pow2(g) <= rhs ELSE lhs <= rhs * Pow2(-g)

\* abs(actual - target_time) <= target_time * 0.15, both in hundredths.
duration_in_band(actual, t) ==
    IF 100 * Abs(actual - t) # 15 * t THEN 100 * Abs(actual - t) < 15 * t
    ELSE IF t = 0 THEN TRUE
    ELSE double_tie_in_band(t \div 100, actual > t)

\* The target, actual and status one parameter gets, drawn at position s;
\* values in hundredths.
param_reading(step, param, s) ==
    LET kind == param_kind(param) IN
    IF kind = "temperature" THEN
        LET actual == Round1(rng_normal(2500, 150, s))
        IN  [target |-> 2500, actual |-> actual,
             status |-> Status(Abs(actual - 2500) <= 200)]
    ELSE IF kind = "pressure" THEN
        LET actual == Round2(rng_normal(100, 15, s))
        IN  [target |-> 100, actual |-> actual,
             status |-> Status(Abs(actual - 100) <= 20)]
    ELSE IF kind = "acidity" THEN
        LET actual == Round2(rng_normal(700, 20, s))
        IN  [target |-> 700, actual |-> actual,
             status |-> Status(650 <= actual /\ actual <= 750)]
    ELSE IF kind = "duration" THEN
        LET t == target_time(step)
            actual == Round1(rng_normal(t, t \div 10, s))
        IN  [target |-> t, actual |-> actual,
             status |-> Status(duration_in_band(actual, t))]
    ELSE
        LET actual == Round1(rng_normal(10000, 200, s))
        IN  [target |-> 10000, actual |-> actual,
             status |-> Status(9500 <= actual /\ actual <= 10500)]

\* param_key: f"step_{i}_{param[:10].replace(' ', '_').lower()}"
param_key(i, param) ==
    [step |-> i, label |-> Lower(BlanksToUnderscores(First10(param)))]

\* batch_record[key + "_target" / "_actual" / "_status"] = ...: a dict keeps
\* the place of a key it already holds and takes the new values.
set_reading(entries, key, reading) ==
    IF \E k \in 1..Len(entries) : entries[k].key = key
        THEN [k \in 1..Len(entries) |->
                IF entries[k].key = key
                    THEN [key |-> key, target |-> reading.target,
                          actual |-> reading.actual, status |-> reading.status]
                    ELSE entries[k]]
        ELSE Append(entries, [key |-> key, target |-> reading.target,
                              actual |-> reading.actual, status |-> reading.status])

\* step.get(...)[:3] of every step, in the order the loops visit them.
tracked_params(steps) ==
    LET first3(ps) == SubSeq(ps, 1, IF Len(ps) < 3 THEN Len(ps) ELSE 3)
        flat[k \in 0..Len(steps)] ==
            IF k = 0 THEN <<>>
            ELSE flat[k - 1] \o [j \in 1..Len(first3(steps[k].params)) |->
                                    [step |-> k, param |-> steps[k].params[j]]]
    IN  flat[Len(steps)]

\* The number of draws one batch makes: six for the header, one a reading.
draws_per_batch(steps) == 6 + Len(tracked_params(steps))

\* A loop that does not seed: the batch draws from the generator as it is.
batch_seed_unseeded(batch_num, rng) == rng

\* A loop that seeds for its first batch only.
batch_seed_first_only(batch_num, rng) ==
    IF batch_num = 1 THEN rng_seed(batch_num) ELSE rng

\* np.random.seed(batch_num)
batch_seed(batch_num, rng) == rng_seed(batch_num)

ShelfLifeDays == 730

\* One batch_record of the loop over batch_num.
batch_record(product_name, steps, batch_num, num_batches, now, rng) ==
    LET base_date == plus_days(now, -(num_batches * 2))
        batch_date == plus_days(base_date, batch_num * 2)
        s0 == batch_seed(batch_num, rng)
        tracked == tracked_params(steps)
        readings[k \in 0..Len(tracked)] ==
            IF k = 0 THEN <<>>
            ELSE set_reading(readings[k - 1],
                             param_key(tracked[k].step, tracked[k].param),
                             param_reading(steps[tracked[k].step],
                                           tracked[k].param,
                                           rng_skip(s0, 6 + k - 1)))
    IN  [batch_number |-> <<"B", "A", "T", "C", "H", "-">>
                            \o zero_pad(int_str(batch_num), 4),
         product_name |-> product_name,
         manufacturing_date |-> strftime(batch_date),
         expiry_date |-> strftime(plus_days(batch_date, ShelfLifeDays)),
         batch_size |-> rng_choice(<<100, 200, 300, 500>>, s0),
         line |-> rng_choice(<<"Line-1", "Line-2", "Line-3">>, rng_skip(s0, 1)),
         shift |-> rng_choice(<<"A", "B", "C">>, rng_skip(s0, 2)),
         operator |-> <<"O", "P">> \o zero_pad(int_str((batch_num % 5) + 1), 3),
         supervisor |-> <<"S", "U", "P">>
                            \o zero_pad(int_str((batch_num % 3) + 1), 2),
         \* round(np.random.uniform(85, 98), 2), in tenths of a percent
         yield_percent |-> rng_uniform(85, 98, rng_skip(s0, 3)),
         quality_status |-> rng_choice_weighted(<<"passed", "pending", "failed">>,
                                                rng_skip(s0, 4)),
         overall_status |-> IF rng_above_tenth(rng_skip(s0, 5))
                                THEN "pass" ELSE "investigate",
         readings |-> readings[Len(tracked)]]

\* A synthesizer drawing from a generator of its own leaves the global one
\* where it was.
generator_after_private(steps, num_batches, rng) == rng

\* The global generator after the loop over batch_num: the last batch seeded
\* it and drew its values.
generator_after(steps, num_batches, rng) ==
    IF num_batches >= 1
        THEN rng_skip(batch_seed(num_batches, rng), draws_per_batch(steps))
        ELSE rng

\* isinstance(product_info, dict): a process is a record of the three keys,
\* anything else is held as a record of one field not_a_dict.
isinstance_dict(info) == DOMAIN info = {"description", "steps", "gmp_class"}

\* The name used when the description is empty or absent.
DefaultProductName == <<"chan", "pin">>

\* generate_batch_records(product_info, num_batches), called at time now with
\* the generator at rng.  raised names the exception that escapes, if any;
\* rows is the DataFrame, one record a row; rng is the generator afterwards.
generate_batch_records(info, num_batches, now, rng) ==
    LET words == IF Truthy(info.description) THEN split(info.description[1]) ELSE <<>>
        steps == GetOr(info.steps, <<>>)
    IN  IF ~isinstance_dict(info)
            THEN [raised |-> "none", rows |-> <<>>, rng |-> rng]
        ELSE IF Truthy(info.description) /\ words = <<>>
            THEN [raised |-> "IndexError", rows |-> <<>>, rng |-> rng]
        ELSE IF steps = <<>>
            THEN [raised |-> "none", rows |-> <<>>, rng |-> rng]
        ELSE [raised |-> "none",
              rows |-> [n \in 1..num_batches |->
                          batch_record(IF Truthy(info.description)
                                           THEN words[1] ELSE DefaultProductName,
                                       steps, n, num_batches, now, rng)],
              rng |-> generator_after(steps, num_batches, rng)]

\* round(mean / 100, 2) * 100 for the mean of yields that add up to total
\* tenths of a percent over n records, between 50 and 100.  When the mean
\* lies halfway between two whole percents, mean / 100 is the double next to
\* (2q + 1) / 200 and round() goes where that double lies: 2^53 * (2q + 1) /
\* 200 leaves the remainder -(2q + 1) mod 25 on division by 25, below or
\* above one half of 25; with no remainder the double is exact and the tie
\* goes to the even digit.  (CPython agrees on every table of up to three
\* records of yields from 85.0 to 98.0 in tenths.)
round_rate(total, n) ==
    LET q == total \div (10 * n)
        r == total % (10 * n)
        left == (25 - ((2 * q + 1) % 25)) % 25
    IN  IF 2 * r < 10 * n THEN q
        ELSE IF 2 * r > 10 * n THEN q + 1
        ELSE IF left = 0 THEN (IF q % 2 = 0 THEN q ELSE q + 1)
        ELSE IF 2 * left > 25 THEN q + 1
        ELSE q

\* round(x, 4) * 100 for x = num / 10^6, in hundredths.  Halfway between two
\* hundredths the rounding errors of the products decide, either way
\* (85.0 * 90.0 * 0.51 / 10000 goes down to 39.01, * 0.59 goes down to 45.13,
\* an odd digit): tie_up says which way.
round_oee(num, tie_up) ==
    LET q == num \div 10000
        r == num % 10000
    IN  IF r < 5000 THEN q
        ELSE IF r > 5000 THEN q + 1
        ELSE IF tie_up THEN q + 1 ELSE q

\* calculate_oee(batch_data), with the generator at rng.  Percentages in
\* tenths, except quality (the yield mean over 100, rounded to two places:
\* a whole percent) and oee (hundredths of a percent).
calculate_oee(rows, rng, tie_up) ==
    IF rows = <<>> THEN [result |-> <<>>, rng |-> rng]
    ELSE
        LET availability == rng_uniform(85, 95, rng)
            performance == rng_uniform(90, 98, rng_next(rng))
            yields[k \in 0..Len(rows)] ==
                IF k = 0 THEN 0 ELSE yields[k - 1] + rows[k].yield_percent
            quality == round_rate(yields[Len(rows)], Len(rows))
            oee == round_oee(availability * performance * quality, tie_up)
        IN  [result |-> << [availability_percent |-> availability,
                            performance_percent |-> performance,
                            quality_percent |-> quality,
                            oee_percent |-> oee,
                            oee_level |-> IF oee >= 8500 THEN "world_class"
                                          ELSE IF oee >= 7500 THEN "excellent"
                                          ELSE IF oee >= 6500 THEN "fair"
                                          ELSE "needs_improvement",
                            loss_analysis |->
                                [availability_loss |-> 1000 - availability,
                                 performance_loss |-> 1000 - performance,
                                 quality_loss |-> 100 - quality]] >>,
             rng |-> rng_next(rng_next(rng))]

-----------------------------------------------------------------------------
(* mes_features.py: the statistics of a batch table *)

\* A float: not-a-number, a number, or a number >= 0 held as its square
\* num / den (a standard deviation, a quotient of one).
NaN == [nan |-> TRUE]
Num(v) == [nan |-> FALSE, value |-> v]
Root(num, den) == [nan |-> FALSE, square |-> <<num, den>>]

\* str.title() on the Latin letters the labels hold: a letter that follows
\* no letter is capitalised, every other one lowered.
IsLatin(c) == c \in {"h", "p", "c", "H", "P", "C"}
UpperChar(c) ==
    IF c = "h" THEN "H" ELSE IF c = "p" THEN "P" ELSE IF c = "c" THEN "C" ELSE c
Title(str) ==
    [k \in 1..Len(str) |->
        IF ~IsLatin(str[k]) THEN str[k]
        ELSE IF k = 1 \/ ~IsLatin(str[k - 1]) THEN UpperChar(str[k])
        ELSE LowerChar(str[k])]

\* The columns of the table whose name holds "_actual", in column order: the
\* keys of the readings, which every record holds alike.
actual_columns(rows) ==
    IF rows = <<>> THEN <<>>
    ELSE [c \in 1..Len(rows[1].readings) |-> rows[1].readings[c].key]

\* The name of the column of actual values of a key.
column_name(key) ==
    <<"s", "t", "e", "p", "_">> \o int_str(key.step) \o <<"_">> \o key.label
        \o <<"_", "a", "c", "t", "u", "a", "l">>

\* param_col.replace("_actual", "").replace("_", " ").title()
param_name(key) ==
    <<"S", "t", "e", "p", " ">> \o int_str(key.step) \o <<" ">>
        \o Title([k \in 1..Len(key.label) |->
                    IF key.label[k] = "_" THEN " " ELSE key.label[k]])

\* pd.to_numeric(batch_data[param_col]).dropna(): every cell holds a number.
valid_values(rows, c) == [k \in 1..Len(rows) |-> rows[k].readings[c].actual]

series_sum(values) ==
    LET acc[k \in 0..Len(values)] ==
            IF k = 0 THEN 0 ELSE acc[k - 1] + values[k]
    IN  acc[Len(values)]

series_min(values) ==
    CHOOSE v \in Range(values) : \A w \in Range(values) : v <= w
series_max(values) ==
    CHOOSE v \in Range(values) : \A w \in Range(values) : v >= w

\* Series.std(): the sample standard deviation, sum((x - mean)^2) / (n - 1)
\* under the root; of one value it is 0 / 0.
series_std(values) ==
    LET n == Len(values)
        total == series_sum(values)
        squares == series_sum([k \in 1..n |-> values[k] * values[k]])
    IN  IF n < 2 THEN NaN
        ELSE Root(n * squares - total * total, n * (n - 1))

\* std / mean * 100 for a mean that is not 0, as the square of std / mean.
coefficient_of_variation(values) ==
    LET n == Len(values)
        total == series_sum(values)
        std == series_std(values)
    IN  IF std.nan THEN NaN
        ELSE Root(std.square[1] * n * n, std.square[2] * total * total)

\* _calculate_trend: the slope of the least-squares line through the values
\* at x = 0, 1, ..., against 0.05 (5 hundredths).
calculate_trend(values) ==
    LET n == Len(values)
        sx == series_sum([k \in 1..n |-> k - 1])
        sxx == series_sum([k \in 1..n |-> (k - 1) * (k - 1)])
        sy == series_sum(values)
        sxy == series_sum([k \in 1..n |-> (k - 1) * values[k]])
        slope_num == n * sxy - sx * sy
        slope_den == n * sxx - sx * sx
    IN  IF n < 3 THEN "insufficient_data"
        ELSE IF 100 * slope_num > 5 * slope_den THEN "rising"
        ELSE IF 100 * slope_num < -(5 * slope_den) THEN "falling"
        ELSE "stable"

\* Floating point.  The quotients of _calculate_cpk are not rounded before
\* they are returned, so what they are depends on the rounding of every
\* operation.  A float is held as mantissa * 10^exponent with a mantissa of
\* FloatDigits decimal digits, and every operation rounds its exact result
\* to the nearest such number, ties to the even mantissa, as IEEE 754 does
\* with 53 binary digits.
Float(m, e) == [nan |-> FALSE, mantissa |-> m, exponent |-> e]

RECURSIVE Pow10(_)
Pow10(k) == IF k = 0 THEN 1 ELSE 10 * Pow10(k - 1)

\* The float nearest to sign * a / den, for a >= 0 and den > 0; e counts
\* the powers of ten taken out so far.
RECURSIVE float_scaled(_, _, _, _)
float_scaled(sign, a, den, e) ==
    IF a = 0 THEN Float(0, 0)
    ELSE IF a >= den * Pow10(FloatDigits) THEN float_scaled(sign, a, den * 10, e + 1)
    ELSE IF a < den * Pow10(FloatDigits - 1) THEN float_scaled(sign, a * 10, den, e - 1)
    ELSE LET m == RoundHalfEven(a, den)
         IN  IF m = Pow10(FloatDigits)
                THEN Float(sign * Pow10(FloatDigits - 1), e + 1)
                ELSE Float(sign * m, e)

\* The float nearest to num / den, den > 0.
float_of(num, den) ==
    IF num < 0 THEN float_scaled(-1, -num, den, 0) ELSE float_scaled(1, num, den, 0)

\* x + y, x - y, x * k for an integer k, and x / y for y # 0, each rounded.
float_add(x, y) ==
    LET e == IF x.exponent < y.exponent THEN x.exponent ELSE y.exponent
        num == x.mantissa * Pow10(x.exponent - e) + y.mantissa * Pow10(y.exponent - e)
    IN  IF e >= 0 THEN float_of(num * Pow10(e), 1) ELSE float_of(num, Pow10(-e))
float_sub(x, y) == float_add(x, Float(-y.mantissa, y.exponent))
float_times(k, x) ==
    IF x.exponent >= 0 THEN float_of(k * x.mantissa * Pow10(x.exponent), 1)
    ELSE float_of(k * x.mantissa, Pow10(-x.exponent))
float_div(x, y) ==
    LET e == IF x.exponent < y.exponent THEN x.exponent ELSE y.exponent
        num == x.mantissa * Pow10(x.exponent - e)
        den == y.mantissa * Pow10(y.exponent - e)
    IN  IF den < 0 THEN float_of(-num, -den) ELSE float_of(num, den)

\* x < y
float_less(x, y) ==
    LET e == IF x.exponent < y.exponent THEN x.exponent ELSE y.exponent
    IN  x.mantissa * Pow10(x.exponent - e) < y.mantissa * Pow10(y.exponent - e)

\* The largest k with k * k <= n.
RECURSIVE isqrt(_)
isqrt(n) ==
    IF n < 2 THEN n
    ELSE LET small == 2 * isqrt(n \div 4)
         IN  IF (small + 1) * (small + 1) > n THEN small ELSE small + 1

\* The float nearest to the root of a / den, for a >= 0 and den > 0.
RECURSIVE float_root_scaled(_, _, _)
float_root_scaled(a, den, e) ==
    IF a = 0 THEN Float(0, 0)
    ELSE IF a >= den * Pow10(2 * FloatDigits)
        THEN float_root_scaled(a, den * 100, e + 1)
    ELSE IF a < den * Pow10(2 * FloatDigits - 2)
        THEN float_root_scaled(a * 100, den, e - 1)
    ELSE LET m == (isqrt((4 * a) \div den) + 1) \div 2
         IN  IF m = Pow10(FloatDigits)
                THEN Float(Pow10(FloatDigits - 1), e + 1)
                ELSE Float(m, e)

\* _calculate_cpk: the limits are set at mean +- 3 * std and the smaller of
\* (usl - mean) / (3 * std) and (mean - lsl) / (3 * std) is returned.
calculate_cpk(values) ==
    LET variance == series_std(values)
        mean == float_of(series_sum(values), Len(values))
        std == float_root_scaled(variance.square[1], variance.square[2], 0)
        usl == float_add(mean, float_times(3, std))
        lsl == float_sub(mean, float_times(3, std))
        cpu == float_div(float_sub(usl, mean), float_times(3, std))
        cpl == float_div(float_sub(mean, lsl), float_times(3, std))
    IN  IF Len(values) < 2 THEN Num(0)
        ELSE IF variance.nan \/ variance.square[1] = 0 THEN Num(0)
        ELSE IF float_less(cpl, cpu) THEN cpl ELSE cpu

\* A _detect_outliers that also takes the values at the threshold.
detect_outliers_inclusive(values) ==
    LET n == Len(values)
        total == series_sum(values)
        std == series_std(values)
        far(k) == LET d == n * values[k] - total
                  IN  d * d * std.square[2] >= 4 * n * n * std.square[1]
        found[k \in 0..n] ==
            IF k = 0 THEN <<>>
            ELSE IF far(k) THEN Append(found[k - 1], k - 1) ELSE found[k - 1]
    IN  IF n < 3 THEN <<>>
        ELSE IF std.nan \/ std.square[1] = 0 THEN <<>>
        ELSE found[n]

\* _detect_outliers: the positions, from 0, with |value - mean| / std > 2.
detect_outliers(values) ==
    LET n == Len(values)
        total == series_sum(values)
        std == series_std(values)
        far(k) == LET d == n * values[k] - total
                  IN  d * d * std.square[2] > 4 * n * n * std.square[1]
        found[k \in 0..n] ==
            IF k = 0 THEN <<>>
            ELSE IF far(k) THEN Append(found[k - 1], k - 1) ELSE found[k - 1]
    IN  IF n < 3 THEN <<>>
        ELSE IF std.nan \/ std.square[1] = 0 THEN <<>>
        ELSE found[n]

\* The entry analyze_batch_trends stores for one column; mean, min and max
\* in thousandths.
column_analysis(values) ==
    [mean |-> Num(RoundHalfEven(series_sum(values) * 10, Len(values))),
     std |-> series_std(values),
     min |-> Num(series_min(values) * 10),
     max |-> Num(series_max(values) * 10),
     cv |-> IF series_sum(values) # 0
                THEN coefficient_of_variation(values) ELSE Num(0),
     trend |-> calculate_trend(values),
     cpk |-> calculate_cpk(values),
     outliers |-> detect_outliers(values)]

\* analysis_results[param_name] = ...: a dict keeps the place of a key it
\* already holds and takes the new value.
set_entry(entries, name, entry) ==
    IF \E k \in 1..Len(entries) : entries[k].name = name
        THEN [k \in 1..Len(entries) |->
                IF entries[k].name = name
                    THEN [name |-> name, stats |-> entry] ELSE entries[k]]
        ELSE Append(entries, [name |-> name, stats |-> entry])

\* analyze_batch_trends(batch_data, parameters): the dict, as the sequence of
\* its entries.
analyze_batch_trends(rows, parameters) ==
    LET columns == actual_columns(rows)
        \* the (pattern, column) pairs in the order of the two loops
        matches[j \in 0..Len(parameters)] ==
            IF j = 0 THEN <<>>
            ELSE matches[j - 1] \o
                    SelectSeq([c \in 1..Len(columns) |-> c],
                              LAMBDA c : Contains(Lower(parameters[j]),
                                                  Lower(column_name(columns[c]))))
        matched == matches[Len(parameters)]
        results[k \in 0..Len(matched)] ==
            IF k = 0 THEN <<>>
            ELSE set_entry(results[k - 1], param_name(columns[matched[k]]),
                           column_analysis(valid_values(rows, matched[k])))
    IN  IF rows = <<>> \/ parameters = <<>> THEN <<>>
        ELSE results[Len(matched)]

\* len(batch_data[batch_data[field] == value])
count_rows(rows, field, value) ==
    Cardinality({k \in 1..Len(rows) : rows[k][field] = value})

\* A count of the other records that leaves the comparison out.
count_rows_unlike_unfiltered(rows, field, value) == Len(rows)

\* len(batch_data[batch_data[field] != value])
count_rows_unlike(rows, field, value) ==
    Cardinality({k \in 1..Len(rows) : rows[k][field] # value})

\* The tier of a coefficient of variation in percent: high below 5, medium
\* below 10, low otherwise; no comparison with NaN is true.
stability_tier(cv) ==
    IF cv.nan THEN "low"
    ELSE IF "value" \in DOMAIN cv
        THEN (IF cv.value < 5 THEN "high" ELSE IF cv.value < 10 THEN "medium" ELSE "low")
    ELSE IF 400 * cv.square[1] < cv.square[2] THEN "high"
    ELSE IF 100 * cv.square[1] < cv.square[2] THEN "medium"
    ELSE "low"

\* generate_quality_report(batch_data): <<>> for {}, else <<report>>.
\* yield_average in hundredths of a percent, yield_range in tenths.
generate_quality_report(rows) ==
    IF rows = <<>> THEN <<>>
    ELSE
        LET n == Len(rows)
            yields == [k \in 1..n |-> rows[k].yield_percent]
            columns == actual_columns(rows)
            first5 == SubSeq(columns, 1, IF Len(columns) < 5 THEN Len(columns) ELSE 5)
            cv(c) == LET values == valid_values(rows, c)
                     IN  IF series_sum(values) # 0
                            THEN coefficient_of_variation(values) ELSE Num(0)
            stability[c \in 0..Len(first5)] ==
                IF c = 0 THEN <<>>
                ELSE set_entry(stability[c - 1], param_name(first5[c]),
                               [cv_percent |-> cv(c),
                                stability |-> stability_tier(cv(c))])
            failed_batches == count_rows_unlike(rows, "overall_status", "pass")
            yield_average == RoundHalfEven(series_sum(yields) * 10, n)
            unstable == SelectSeq(stability[Len(first5)],
                                  LAMBDA e : e.stats.stability = "low")
        IN  << [summary |->
                    [total_batches |-> n,
                     passed_batches |-> count_rows(rows, "overall_status", "pass"),
                     failed_batches |-> failed_batches,
                     yield_average |-> yield_average,
                     yield_range |-> <<series_min(yields), series_max(yields)>>],
                quality_distribution |->
                    [passed |-> count_rows(rows, "quality_status", "passed"),
                     pending |-> count_rows(rows, "quality_status", "pending"),
                     failed |-> count_rows(rows, "quality_status", "failed")],
                parameter_stability |-> stability[Len(first5)],
                recommendations |->
                    (IF failed_batches > 0
                        THEN << <<"investigate", failed_batches>> >> ELSE <<>>)
                    \o (IF yield_average < 9000 THEN << <<"optimize">> >> ELSE <<>>)
                    \o [k \in 1..Len(unstable) |->
                            <<"strengthen", unstable[k].name>>]] >>

-----------------------------------------------------------------------------
(* The synthesizer and the OEE calculation run on a process *)

ParamPH == KwPH \o <<"kong", "zhi">>                        \* pH control
ParamMixingTime == <<"hun", "he">> \o KwTime                \* mixing time

\* Steps with a duration: a default one, one of two hours with four
\* parameters, one of no time at all with the same label twice.
BatchSteps ==
    {StepT(NameSterilization,
           <<ParamTemperature, ParamSterility, ParamSterilizationTime>>,
           <<EquipSterilizer>>, <<>>),
     StepT(NameFiltration,
           <<ParamPressure, ParamPH, ParamTemperature, ParamPurity>>,
           <<EquipFilter>>, << <<"2", "h">> >>),
     StepT(NameMixing, <<ParamMixingTime, ParamMixingTime>>,
           <<EquipTank>>, << <<"0", "h">> >>)}

\* The step lists of the processes: none, each step alone, and two pairs.
BatchStepLists ==
    {<<>>} \cup {<<b>> : b \in BatchSteps}
        \cup {<<b, c>> : b \in BatchSteps,
                         c \in {d \in BatchSteps : d.name = NameSterilization}}

\* Processes without a description and with one; one whose description
\* is a blank.
BatchProducts ==
    {Product(d, ss) : d \in {<<>>, <<DescriptionText>>}, ss \in BatchStepLists}
        \cup {Product(<<DescriptionBlank>>, <<b>>) :
                b \in {d \in BatchSteps : d.name = NameSterilization}}

\* The states the generator may be in when the session starts.
Entropy == {0, 5}

\* The days the page is opened on: 1 March 2024 and 3 November 2026.
Nows == {60, 1037}

InitBatch ==
    /\ product_info \in BatchProducts
    /\ RiskIdle
    /\ today = 0
    /\ np_random \in Entropy
    /\ BatchIdle

\* A record without its two dates.
undated(row) ==
    [f \in (DOMAIN row) \ {"manufacturing_date", "expiry_date"} |-> row[f]]

\* batch_data = MESFeatures.generate_batch_records(product_info, n) on the day
\* now.  The page handler starts here: what the run before it computed is
\* gone.
GenerateBatchRecords(n, now) ==
    /\ runs < MaxRuns
    /\ \E r \in {generate_batch_records(product_info, n, now, np_random)} :
       LET snapshot == [num_batches |-> n, rng |-> np_random,
                        readings |-> [k \in 1..Len(r.rows) |-> r.rows[k].readings],
                        records |-> [k \in 1..Len(r.rows) |-> undated(r.rows[k])]]
       IN  /\ raised' = r.raised
           /\ batch_data' = IF r.raised = "none" THEN r.rows ELSE batch_data
           /\ np_random' = r.rng
           /\ first_batches' \in
                IF first_batches = <<>> /\ r.raised = "none"
                    THEN {<<>>, <<snapshot>>} ELSE {first_batches}
    /\ batches_asked' = n
    /\ today' = now
    /\ rng_at_generate' = np_random
    /\ oee_data' = <<>>
    /\ last_call' = "generate"
    /\ runs' = runs + 1
    /\ oee_calls' = 0
    /\ UNCHANGED <<product_info, riskVars, first_oee, statVars, analyzerVars>>

\* oee_data = MESFeatures.calculate_oee(batch_data)
CalculateOee ==
    /\ oee_calls < MaxOeeCalls
    /\ \E r \in {calculate_oee(batch_data, np_random, up) : up \in BOOLEAN} :
       LET after_generate == last_call = "generate" /\ raised = "none"
           snapshot == [num_batches |-> batches_asked,
                        rng |-> rng_at_generate, result |-> r.result]
       IN  /\ oee_data' = r.result
           /\ np_random' = r.rng
           /\ last_call' = IF after_generate THEN "oee_after_generate" ELSE "oee"
           /\ first_oee' \in
                IF first_oee = <<>> /\ after_generate
                    THEN {<<>>, <<snapshot>>} ELSE {first_oee}
    /\ raised' = "none"
    /\ oee_calls' = oee_calls + 1
    /\ UNCHANGED <<product_info, riskVars, today, batches_asked, batch_data, runs,
                   rng_at_generate, first_batches, statVars, analyzerVars>>

NextBatch ==
    \/ \E n \in 1..MaxBatches, now \in Nows : GenerateBatchRecords(n, now)
    \/ CalculateOee

SpecBatch == InitBatch /\ [][NextBatch]_vars

-----------------------------------------------------------------------------
(* The statistics run on a batch table *)

\* The numbers a column holds, in hundredths.
StatValues == {0, 100, 104, 120}

\* The keys of the columns: a temperature and a pressure of steps 1 to 3.
StatKeys ==
    <<param_key(1, ParamTemperature), param_key(1, ParamPressure),
      param_key(2, ParamTemperature), param_key(2, ParamPressure),
      param_key(3, ParamTemperature), param_key(3, ParamPressure)>>

\* A record of a table: the reading of column c is column[c].
StatRow(n, yield, overall, column) ==
    [batch_number |-> <<"B", "A", "T", "C", "H", "-">> \o zero_pad(int_str(n), 4),
     product_name |-> DefaultProductName,
     manufacturing_date |-> strftime(2 * n),
     expiry_date |-> strftime(2 * n + ShelfLifeDays),
     batch_size |-> 100,
     line |-> "Line-1",
     shift |-> "A",
     operator |-> <<"O", "P">> \o zero_pad(int_str((n % 5) + 1), 3),
     supervisor |-> <<"S", "U", "P">> \o zero_pad(int_str((n % 3) + 1), 2),
     yield_percent |-> yield,
     quality_status |-> IF overall = "pass" THEN "passed" ELSE "pending",
     overall_status |-> overall,
     readings |-> [c \in 1..Len(column) |->
                    [key |-> StatKeys[c], target |-> 100, actual |-> column[c],
                     status |-> Status(Abs(column[c] - 100) <= 20)]]]

\* Tables of one to MaxRows records: the first column holds any values, the
\* second, where there is one, the same values from the last to the first;
\* the first batch may be under investigation.
StatTables ==
    {[k \in 1..Len(xs) |->
        StatRow(k, y, IF k = 1 THEN o ELSE "pass",
                IF two THEN <<xs[k], xs[Len(xs) + 1 - k]>> ELSE <<xs[k]>>)] :
        xs \in SeqsUpTo(StatValues, MaxRows) \ {<<>>},
        y \in {880, 950}, o \in {"pass", "investigate"}, two \in BOOLEAN}

\* Tables of six columns and two to MaxRows records: one column swings
\* between 100 and 120, the others between 100 and 104.
WideTables ==
    {[k \in 1..n |->
        StatRow(k, 950, "pass",
                [c \in 1..6 |->
                    IF k % 2 = 1 THEN 100 ELSE IF c = wide THEN 120 ELSE 104])] :
        n \in 2..MaxRows, wide \in 1..6}

\* The parameter lists the page passes.
ParameterLists == {<<>>, <<KwTemperature>>, <<KwPH, KwTemperature, KwPressure>>}

InitStats ==
    /\ product_info = NoProduct
    /\ RiskIdle
    /\ today = 0
    /\ np_random = 0
    /\ batches_asked = 0
    /\ batch_data \in StatTables \cup WideTables \cup {<<>>}
    /\ raised = "none"
    /\ oee_data = <<>>
    /\ last_call = "none"
    /\ runs = 0
    /\ oee_calls = 0
    /\ rng_at_generate = 0
    /\ first_batches = <<>>
    /\ first_oee = <<>>
    /\ analysis_results = <<>>
    /\ quality_report = <<>>
    /\ metrics_data = <<>>
    /\ template_data = <<>>

\* analysis_results = MESFeatures.analyze_batch_trends(batch_data, parameters)
AnalyzeBatchTrends(parameters) ==
    /\ analysis_results' = <<analyze_batch_trends(batch_data, parameters)>>
    /\ last_call' = "analyze"
    /\ UNCHANGED <<product_info, riskVars, today, np_random, batches_asked,
                   batch_data, raised, oee_data, runs, oee_calls,
                   rng_at_generate, first_batches, first_oee, quality_report, analyzerVars>>

\* quality_report = MESFeatures.generate_quality_report(batch_data)
GenerateQualityReport ==
    /\ quality_report' = <<generate_quality_report(batch_data)>>
    /\ last_call' = "report"
    /\ UNCHANGED <<product_info, riskVars, today, np_random, batches_asked,
                   batch_data, raised, oee_data, runs, oee_calls,
                   rng_at_generate, first_batches, first_oee, analysis_results, analyzerVars>>

NextStats ==
    \/ \E parameters \in ParameterLists : AnalyzeBatchTrends(parameters)
    \/ GenerateQualityReport

SpecStats == InitStats /\ [][NextStats]_vars

-----------------------------------------------------------------------------
(* The statistics run on a longer column *)

\* The value most records hold, and the values up to two records hold
\* instead, in hundredths.
SeriesBase == 100
SeriesOff == {60, 140}

\* Columns of 1 to MaxSeries values, all SeriesBase but for at most two.
OutlierSeries ==
    {[k \in 1..n |-> IF k = p THEN a ELSE IF k = q THEN b ELSE SeriesBase] :
        n \in 1..MaxSeries, p \in 1..MaxSeries, q \in 1..MaxSeries,
        a \in SeriesOff \cup {SeriesBase}, b \in SeriesOff \cup {SeriesBase}}

OutlierTables ==
    {[k \in 1..Len(xs) |-> StatRow(k, 950, "pass", <<xs[k]>>)] :
        xs \in OutlierSeries}

InitOutliers ==
    /\ product_info = NoProduct
    /\ RiskIdle
    /\ today = 0
    /\ np_random = 0
    /\ batches_asked = 0
    /\ batch_data \in OutlierTables
    /\ raised = "none"
    /\ oee_data = <<>>
    /\ last_call = "none"
    /\ runs = 0
    /\ oee_calls = 0
    /\ rng_at_generate = 0
    /\ first_batches = <<>>
    /\ first_oee = <<>>
    /\ analysis_results = <<>>
    /\ quality_report = <<>>
    /\ metrics_data = <<>>
    /\ template_data = <<>>

NextOutliers ==
    \/ \E parameters \in ParameterLists : AnalyzeBatchTrends(parameters)
    \/ GenerateQualityReport

SpecOutliers == InitOutliers /\ [][NextOutliers]_vars

-----------------------------------------------------------------------------
(* The batch pages run on a process that has no step *)

\* A string passed where the process is expected.
NotADict == [not_a_dict |-> <<"chan", "pin">>]

\* Processes without the steps key and with an empty step list, of every
\* description; one process of one step.
StepsOfMixing ==
    <<StepT(NameMixing, <<ParamTemperature, ParamPressure>>, <<EquipTank>>, <<>>)>>
EmptyProducts ==
    {NotADict}
    \cup {[description |-> d, steps |-> ss, gmp_class |-> <<>>] :
            d \in Descriptions, ss \in {<<>>, << <<>> >>}}
    \cup {Product(<<DescriptionText>>, StepsOfMixing)}

InitEmpty ==
    /\ product_info \in EmptyProducts
    /\ RiskIdle
    /\ today = 0
    /\ np_random \in Entropy
    /\ BatchIdle

NextEmpty ==
    \/ \E n \in 1..MaxBatches, now \in Nows : GenerateBatchRecords(n, now)
    \/ CalculateOee
    \/ \E parameters \in ParameterLists : AnalyzeBatchTrends(parameters)
    \/ GenerateQualityReport

SpecEmpty == InitEmpty /\ [][NextEmpty]_vars

-----------------------------------------------------------------------------
(* The process metrics and the synthesizer run on steps with a duration *)

\* Duration values: hours, days, a bare number, words without a unit marker,
\* words with the day marker, the hour marker with a word, the hour marker
\* alone.
TimeStrings ==
    {<<"2", "h">>, <<"1", "tian">>, <<"9", "0">>, <<"yue", "ban">>,
     <<"yue", "2", "tian">>, <<"2", "h", "zuo", "you">>, <<"h">>}

\* A sterilization step that tracks its temperature and its time, without a
\* duration or with one.
TimedSteps ==
    {StepT(NameSterilization, <<ParamTemperature, ParamSterilizationTime>>,
           <<EquipSterilizer>>, t) : t \in {<<>>} \cup {<<ts>> : ts \in TimeStrings}}

\* Processes of one timed step, or of a mixing step of two hours and a timed
\* step after it.
TimedProducts ==
    {Product(<<DescriptionText>>, ss) :
        ss \in {<<b>> : b \in TimedSteps}
                \cup {<<StepT(NameMixing, <<ParamMixingTime>>, <<EquipTank>>,
                             << <<"2", "h">> >>), b>> : b \in TimedSteps}}

InitMetrics ==
    /\ product_info \in TimedProducts
    /\ RiskIdle
    /\ today = 0
    /\ np_random \in Entropy
    /\ BatchIdle

\* metrics = MESAnalyzer.calculate_process_metrics(steps)
CalculateProcessMetrics ==
    /\ \E r \in {calculate_process_metrics(GetOr(product_info.steps, <<>>))} :
        /\ raised' = r.raised
        /\ metrics_data' = IF r.raised = "none" THEN r.result ELSE metrics_data
    /\ last_call' = "metrics"
    /\ UNCHANGED <<product_info, riskVars, today, np_random, batches_asked,
                   batch_data, oee_data, runs, oee_calls, rng_at_generate,
                   first_batches, first_oee, statVars, template_data>>

NextMetrics ==
    \/ CalculateProcessMetrics
    \/ \E n \in 1..MaxBatches, now \in Nows : GenerateBatchRecords(n, now)

SpecMetrics == InitMetrics /\ [][NextMetrics]_vars

-----------------------------------------------------------------------------
(* The synthesizer run on steps of the catalog *)

\* A step dict of the catalog: its duration is an integer under one of the
\* keys shi jian(min), shi jian(h), shi jian(tian); it has no key shi jian.
StepC(name, params, equip, unit, amount) ==
    [name |-> name, params |-> params, equip |-> equip, time |-> <<>>,
     duration |-> [unit |-> unit, amount |-> amount]]

ParamCrystallizationTime == <<"jie", "jing">> \o KwTime \o <<"(", "8", "h", ")">>
ParamCouplingTime == <<"ou", "lian">> \o KwTime

\* Crystallization, 8 hours; cell culture, 14 days; coupling, 45 minutes;
\* drying, 4 hours.
CatalogSteps ==
    {StepC(<<"jie", "jing">>, <<ParamTemperature, ParamCrystallizationTime>>,
           <<EquipTank>>, "h", 8),
     StepC(<<"pei", "yang">>, <<ParamMixingTime>>, <<EquipTank>>, "tian", 14),
     StepC(<<"ou", "lian">>, <<ParamCouplingTime, ParamPressure>>,
           <<EquipTank>>, "min", 45),
     StepC(<<"gan", "zao">>, <<ParamMixingTime>>, <<EquipTank>>, "h", 4)}

CatalogProducts ==
    {Product(<<DescriptionText>>, ss) :
        ss \in {<<b>> : b \in CatalogSteps}
                \cup {<<b, c>> : b \in CatalogSteps, c \in CatalogSteps}}

InitCatalog ==
    /\ product_info \in CatalogProducts
    /\ RiskIdle
    /\ today = 0
    /\ np_random \in Entropy
    /\ BatchIdle

NextCatalog ==
    \/ \E n \in 1..MaxBatches, now \in Nows : GenerateBatchRecords(n, now)
    \/ CalculateOee

SpecCatalog == InitCatalog /\ [][NextCatalog]_vars

-----------------------------------------------------------------------------
(* Every page run on one process *)

\* A process of two steps, one with a duration and one with the same label
\* twice; the same with a duration float() does not take; a process without
\* the steps key.
PageSteps(time_str) ==
    <<StepT(NameFiltration, <<ParamPressure, ParamTemperature>>,
            <<EquipFilter>>, <<time_str>>),
      StepT(NameSterilization, <<ParamTemperature, ParamTemperature>>,
            <<EquipSterilizer>>, <<>>)>>
PageProducts ==
    {Product(<<>>, PageSteps(<<"2", "h">>)),
     Product(<<DescriptionText>>, PageSteps(<<"2", "h", "zuo", "you">>)),
     [description |-> <<DescriptionText>>, steps |-> <<>>, gmp_class |-> <<>>]}

\* product_info.get(steps key, [])
TheStepsOf(info) == GetOr(info.steps, <<>>)

InitPages ==
    /\ product_info \in PageProducts
    /\ RiskIdle
    /\ today = 0
    /\ np_random = 0
    /\ BatchIdle

\* display_single_product_analysis: the page computes the metrics, and an
\* exception of theirs ends the run of the page; then its tabs assess the
\* risk, where the process has steps, and make the batch record template.
DisplaySingleProductAnalysis ==
    /\ \E m \in {calculate_process_metrics(TheStepsOf(product_info))},
          r \in {generate_batch_record_template(product_info)} :
        /\ raised' = m.raised
        /\ metrics_data' = IF m.raised = "none" THEN m.result ELSE metrics_data
        /\ risk_data' =
            IF m.raised = "none" /\ TheStepsOf(product_info) # <<>>
                THEN <<assess_process_risk(TheStepsOf(product_info))>>
                ELSE risk_data
        /\ template_data' = IF m.raised = "none" THEN <<r.template>> ELSE template_data
        /\ product_info' = IF m.raised = "none" THEN r.product_info ELSE product_info
    /\ last_call' = "product_page"
    /\ UNCHANGED <<score_in, compliance_data, level_out, today, np_random,
                   batches_asked, batch_data, oee_data, runs, oee_calls,
                   rng_at_generate, first_batches, first_oee, statVars>>

NextPages ==
    \/ DisplaySingleProductAnalysis
    \/ CheckGmpCompliance
    \/ GenerateBatchRecords(MaxBatches, 60)
    \/ AnalyzeBatchTrends(<<KwTemperature>>)
    \/ GenerateQualityReport
    \/ CalculateOee

SpecPages == InitPages /\ [][NextPages]_vars

-----------------------------------------------------------------------------
(* Properties of the risk assessor and the compliance checker *)

Last(s) == s[Len(s)]
ButLast(s) == SubSeq(s, 1, Len(s) - 1)
TheSteps == GetOr(product_info.steps, <<>>)

\* C3: _determine_risk_level maps a score s to critical iff s >= 8, high iff
\* 6 <= s < 8, medium iff 4 <= s < 6, low iff 2 <= s < 4 and acceptable iff
\* s < 2: every boundary belongs to the level above it.
C3_RiskLevelBoundaries ==
    level_out # <<>> =>
        LET num == score_in[1]
            den == score_in[2]
            lv == level_out[1]
            AtLeast(p) == num >= p * ScoreDen * den
        IN  /\ (lv = LevelCritical) <=> AtLeast(8)
            /\ (lv = LevelHigh) <=> (AtLeast(6) /\ ~AtLeast(8))
            /\ (lv = LevelMedium) <=> (AtLeast(4) /\ ~AtLeast(6))
            /\ (lv = LevelLow) <=> (AtLeast(2) /\ ~AtLeast(4))
            /\ (lv = LevelAcceptable) <=> ~AtLeast(2)

\* The score is exactly 8.0 and has been classified critical.
C3_Witness ==
    /\ score_in = <<8 * ScoreDen, 1>>
    /\ level_out = <<LevelCritical>>

\* The risk score assess_process_risk reports for critical step k.
CriticalScore(result, k) ==
    (CHOOSE c \in Range(result.critical_steps) : c.step_number = k).risk_score

\* A label with a keyword of the scorer's sterility group.
IsSterilityLabel(param) ==
    \/ Contains(KwAseptic, param)
    \/ Contains(KwVirus, param)
    \/ Contains(KwEndotoxin, param)

\* The steps with a critical-operation name whose last parameter is a
\* sterility label.
SterilityAppended ==
    {k \in 1..Len(TheSteps) :
        /\ ContainsAny({KwSterilization, KwAseptic, KwFilling,
                        KwChromatography, KwVirus}, TheSteps[k].name)
        /\ TheSteps[k].params # <<>>
        /\ IsSterilityLabel(Last(TheSteps[k].params))}

FindingsOf(result, sev) ==
    {k \in 1..Len(result.compliance_items) :
        result.compliance_items[k].severity = sev}

\* C5: the overall status is compliant iff no finding is severe, whatever
\* the number of moderate findings.
C5_SeverityGate ==
    compliance_data # <<>> =>
        ((compliance_data[1].overall_status = "compliant")
            <=> (FindingsOf(compliance_data[1], "severe") = {}))

\* One severe finding among several moderate ones: needs improvement.
C5_Witness ==
    /\ compliance_data # <<>>
    /\ Cardinality(FindingsOf(compliance_data[1], "severe")) = 1
    /\ Cardinality(FindingsOf(compliance_data[1], "moderate")) >= 2
    /\ compliance_data[1].overall_status = "needs_improvement"

\* C6: a process with no step and a non-empty description has no finding,
\* zero severity counts, no recommendation, and is compliant.
C6_ComplianceCompleteness ==
    (/\ compliance_data # <<>>
     /\ TheSteps = <<>>
     /\ product_info.description # <<>>
     /\ product_info.description[1] # <<>>) =>
        /\ compliance_data[1].compliance_items = <<>>
        /\ compliance_data[1].severity_counts
            = [severe |-> 0, moderate |-> 0, minor |-> 0]
        /\ compliance_data[1].recommendations = <<>>
        /\ compliance_data[1].overall_status = "compliant"

\* A process with no step and a description of one blank was checked.
C6_Witness ==
    /\ compliance_data # <<>>
    /\ TheSteps = <<>>
    /\ product_info.description = <<DescriptionBlank>>
    /\ compliance_data[1].overall_status = "compliant"

\* The scenario: one step named sterilization, with a temperature parameter,
\* a sterility parameter and a sterilizer.
IsSterilizationScenario ==
    /\ Len(TheSteps) = 1
    /\ TheSteps[1].name = KwSterilization
    /\ Len(TheSteps[1].params) = 2
    /\ Contains(KwTemperature, TheSteps[1].params[1])
    /\ Contains(KwAseptic, TheSteps[1].params[2])
    /\ Len(TheSteps[1].equip) = 1
    /\ Contains(KwSterilization, TheSteps[1].equip[1])

\* C7: on the sterilization scenario assess_process_risk reports exactly one
\* critical step, step 1, a total above 5 and a level of medium or higher.
C7_SterilizationScenario ==
    (risk_data # <<>> /\ IsSterilizationScenario) =>
        /\ Len(risk_data[1].critical_steps) = 1
        /\ risk_data[1].critical_steps[1].step_number = 1
        /\ risk_data[1].total_risk_score > 5 * ScoreDen
        /\ risk_data[1].risk_level \in {LevelMedium, LevelHigh, LevelCritical}

\* The scenario was assessed: 1.5 * (1 + 3 + 2) = 9 points.
C7_Witness ==
    /\ risk_data # <<>>
    /\ IsSterilizationScenario
    /\ TheSteps[1].params[1] = ParamTemperature
    /\ risk_data[1].total_risk_score = 9 * ScoreDen

\* The scenario: the only step is named filtration and has no pressure or
\* flow-rate parameter.
IsFiltrationScenario ==
    /\ Len(TheSteps) = 1
    /\ TheSteps[1].name = KwFiltration
    /\ \A k \in 1..Len(TheSteps[1].params) :
        /\ ~Contains(KwPressure, TheSteps[1].params[k])
        /\ ~Contains(KwFlow, TheSteps[1].params[k])

OneModerateFindingOnStep ==
    /\ Len(compliance_data[1].compliance_items) = 1
    /\ compliance_data[1].compliance_items[1].severity = "moderate"
    /\ compliance_data[1].compliance_items[1].step = TheSteps[1].name

\* C8 as stated: on the filtration scenario check_gmp_compliance returns
\* exactly one finding, moderate, on that step.
C8_AsStated ==
    (compliance_data # <<>> /\ IsFiltrationScenario) => OneModerateFindingOnStep

\* C8: on the filtration scenario, when the process has a non-empty
\* description, check_gmp_compliance returns exactly one finding, moderate,
\* on that step.
C8_FiltrationScenario ==
    (/\ compliance_data # <<>>
     /\ IsFiltrationScenario
     /\ product_info.description # <<>>
     /\ product_info.description[1] # <<>>) => OneModerateFindingOnStep

\* The filtration scenario with a description was checked.
C8_Witness ==
    /\ compliance_data # <<>>
    /\ IsFiltrationScenario
    /\ product_info.description = <<DescriptionText>>
    /\ TheSteps[1].params # <<>>
    /\ OneModerateFindingOnStep

-----------------------------------------------------------------------------
(* Properties of the synthesizer and of the OEE calculation *)

\* The target, actual and status of every step parameter of every record.
ReadingsOf(rows) == [k \in 1..Len(rows) |-> rows[k].readings]

\* The day a "%Y-%m-%d" date names.
date_ordinal(date) ==
    LET years[y \in 2024..date[1]] ==
            IF y = 2024 THEN 0 ELSE years[y - 1] + DaysInYear(y - 1)
        months[m \in 1..date[2]] ==
            IF m = 1 THEN 0 ELSE months[m - 1] + DaysInMonth(date[1], m - 1)
    IN  years[date[1]] + months[date[2]] + date[3] - 1

\* C1: for a fixed process and batch count, generate_batch_records returns
\* the same target, actual and status values for every step parameter of
\* every record as an earlier invocation did, whatever ran in between and
\* wherever the generator stood.
C1_Determinism ==
    (/\ last_call = "generate"
     /\ raised = "none"
     /\ first_batches # <<>>
     /\ first_batches[1].num_batches = batches_asked)
        => ReadingsOf(batch_data) = first_batches[1].readings

\* An invocation with the batch count of a remembered one that found the
\* generator elsewhere, and returned readings.
C1_Witness ==
    /\ last_call = "generate"
    /\ raised = "none"
    /\ first_batches # <<>>
    /\ first_batches[1].num_batches = batches_asked
    /\ first_batches[1].rng # rng_at_generate
    /\ \E k \in 1..Len(batch_data) : Len(batch_data[k].readings) >= 2

\* The returned table has as many records as asked for, pairwise distinct
\* batch numbers, and every expiry date 730 days after the manufacturing date.
TableShape ==
    /\ Len(batch_data) = batches_asked
    /\ \A j, k \in 1..Len(batch_data) :
            j # k => batch_data[j].batch_number # batch_data[k].batch_number
    /\ \A k \in 1..Len(batch_data) :
            date_ordinal(batch_data[k].expiry_date)
                = date_ordinal(batch_data[k].manufacturing_date) + 730

\* C2: for every process with at least one step and every batch count
\* N >= 1, generate_batch_records returns a table of exactly N records with
\* pairwise distinct batch numbers and every expiry date exactly 730 days
\* after the manufacturing date.
C2_AsStated ==
    (last_call = "generate" /\ TheSteps # <<>> /\ batches_asked >= 1)
        => (raised = "none" /\ TableShape)

\* Whenever generate_batch_records does return for such a process, the table
\* has that shape.
C2_ShapeWhenReturned ==
    (/\ last_call = "generate"
     /\ TheSteps # <<>>
     /\ batches_asked >= 1
     /\ raised = "none") => TableShape

\* A table of two records whose shelf life covers the leap day of 2028.
C2_ShapeWitness ==
    /\ last_call = "generate"
    /\ raised = "none"
    /\ Len(batch_data) = 2
    /\ batch_data[1].manufacturing_date[1] = 2026
    /\ batch_data[1].expiry_date[1] = 2028

\* The availability and performance calculate_oee returned.
Drawn(result) ==
    IF result = <<>> THEN <<>>
    ELSE <<result[1].availability_percent, result[1].performance_percent>>

-----------------------------------------------------------------------------
(* Properties of the statistics *)

\* The entries of the last analysis and of the last report's stability part.
AnalysisEntries == IF analysis_results = <<>> THEN <<>> ELSE analysis_results[1]
StabilityEntries ==
    IF quality_report = <<>> \/ quality_report[1] = <<>> THEN <<>>
    ELSE quality_report[1][1].parameter_stability

\* Every mean, std, cv and cpk of the analysis and every cv_percent of the
\* report is a number.
AllDefined ==
    /\ \A k \in 1..Len(AnalysisEntries) :
        LET e == AnalysisEntries[k].stats
        IN  ~e.mean.nan /\ ~e.std.nan /\ ~e.cv.nan /\ ~e.cpk.nan
    /\ \A k \in 1..Len(StabilityEntries) :
        ~StabilityEntries[k].stats.cv_percent.nan

\* C10: for every non-empty batch table, a table of one record and a
\* constant or zero-mean column included, every mean, std, cv and cpk
\* analyze_batch_trends returns and every cv_percent generate_quality_report
\* returns is a defined number, never NaN.
C10_AsStated == (batch_data # <<>>) => AllDefined

\* On a table of two or more records every one of these values is defined, a
\* constant and an all-zero column included.
C10_DefinedFromTwoRecords == (Len(batch_data) >= 2) => AllDefined

\* An analysis and a report of a table of two records whose column is 0
\* throughout.
C10_DefinedWitness ==
    /\ Len(batch_data) = 2
    /\ \A k \in 1..2 : batch_data[k].readings[1].actual = 0
    /\ Len(AnalysisEntries) >= 1
    /\ Len(StabilityEntries) >= 1

-----------------------------------------------------------------------------
(* Properties of the process metrics *)

\* A duration value that is no number once its unit marker and brackets are
\* taken away (a bare number needs no marker).
Unparseable(step) ==
    /\ step.time # <<>>
    /\ LET time_str == step.time[1]
           bare == SelectSeq(time_str, LAMBDA c : c \notin {"tian", "h", "(", ")"})
       IN  bare = <<>> \/ \E k \in 1..Len(bare) : ~IsDigit(bare[k])

\* The hours the steps with a parseable duration add up to, in hundredths.
ParseableHours(steps) ==
    LET acc[k \in 0..Len(steps)] ==
            IF k = 0 THEN 0
            ELSE acc[k - 1] + (IF Unparseable(steps[k]) THEN 0
                               ELSE step_time_value(steps[k])[1])
    IN  acc[Len(steps)]

\* C11: for every step whose duration value cannot be parsed as a number, a
\* value with a day or hour marker and other text included,
\* calculate_process_metrics returns a result in which that step adds 0 to
\* total_time_hours, and generate_batch_records returns its table.
C11_AsStated ==
    ((\E k \in 1..Len(TheSteps) : Unparseable(TheSteps[k]))
        /\ last_call \in {"metrics", "generate"})
        => /\ raised = "none"
           /\ last_call = "metrics" =>
                /\ metrics_data # <<>>
                /\ metrics_data[1].total_time_hours = ParseableHours(TheSteps)
           /\ last_call = "generate" => Len(batch_data) = batches_asked

\* What holds of the code: generate_batch_records returns its table whatever
\* the duration value is, and calculate_process_metrics counts 0 for a value
\* without a unit marker that is no number.
C11_FallbackWithoutMarker ==
    /\ (last_call = "generate") =>
            (raised = "none" /\ Len(batch_data) = batches_asked)
    /\ (last_call = "metrics"
            /\ \A k \in 1..Len(TheSteps) :
                    Unparseable(TheSteps[k]) =>
                        ~(Contains(KwDay, TheSteps[k].time[1])
                            \/ Contains(KwHour, TheSteps[k].time[1])))
        => /\ raised = "none"
           /\ metrics_data # <<>>
           /\ metrics_data[1].total_time_hours = ParseableHours(TheSteps)

\* The metrics of a process whose second step has words for a duration.
C11_FallbackWitness ==
    /\ last_call = "metrics"
    /\ Len(TheSteps) = 2
    /\ Unparseable(TheSteps[2])
    /\ metrics_data # <<>>
    /\ metrics_data[1].total_time_hours = 200

-----------------------------------------------------------------------------
(* Properties of the capability index and of the outliers *)

\* The column the k-th entry of the last analysis was taken of.
ColumnOfEntry(k) ==
    valid_values(batch_data,
                 CHOOSE c \in 1..Len(actual_columns(batch_data)) :
                    param_name(actual_columns(batch_data)[c])
                        = AnalysisEntries[k].name)

\* The values of a series are not all the same.
Varies(values) == \E j, k \in 1..Len(values) : values[j] # values[k]

\* The float 1.0.
FloatOne == Float(Pow10(FloatDigits - 1), 1 - FloatDigits)

\* C12: _calculate_cpk returns exactly 1.0 for every series of at least two
\* values with nonzero standard deviation, and 0 for every constant series
\* and for every series of fewer than two values.
C12_AsStated ==
    \A k \in 1..Len(AnalysisEntries) :
        LET values == ColumnOfEntry(k)
            cpk == AnalysisEntries[k].stats.cpk
        IN  IF Len(values) >= 2 /\ Varies(values)
                THEN cpk = FloatOne ELSE cpk = Num(0)

\* What holds of the code: 0 for a constant series and for one of fewer
\* than two values, and a float that is not 0 for every other one.
C12_ZeroWhenDegenerate ==
    \A k \in 1..Len(AnalysisEntries) :
        LET values == ColumnOfEntry(k)
            cpk == AnalysisEntries[k].stats.cpk
        IN  IF Len(values) >= 2 /\ Varies(values)
                THEN /\ "mantissa" \in DOMAIN cpk
                     /\ cpk.mantissa > 0
                ELSE cpk = Num(0)

\* An analysis of a constant column of three records.
C12_ZeroWitness ==
    /\ Len(batch_data) = 3
    /\ Len(AnalysisEntries) >= 1
    /\ ~Varies(ColumnOfEntry(1))
    /\ AnalysisEntries[1].stats.cpk = Num(0)

\* The positions, from 0, of the values of a series that lie more than two
\* standard deviations from its mean: (n v - sum)^2 / n^2 > 4 variance.
FarPositions(values) ==
    LET n == Len(values)
        total == series_sum(values)
        variance == series_std(values).square
    IN  {k - 1 : k \in {j \in 1..n :
            (n * values[j] - total) * (n * values[j] - total) * variance[2]
                > 4 * n * n * variance[1]}}

C13_ThresholdWitness ==
    /\ Len(AnalysisEntries) = 1
    /\ Len(batch_data) = 9
    /\ Cardinality(Range(ColumnOfEntry(1))) = 3
    /\ AnalysisEntries[1].stats.outliers = <<>>

-----------------------------------------------------------------------------
(* Properties of the empty and of the unchanged inputs *)

\* C14: assess_process_risk of an empty step sequence returns total risk
\* score 0, average risk score 0, the acceptable level, no critical step, no
\* high-risk factor and exactly the two generic recommendations.
C14_EmptyRiskInput ==
    (risk_data # <<>> /\ TheSteps = <<>>) =>
        risk_data[1] =
            [total_risk_score |-> 0,
             average_risk_score |-> 0,
             risk_level |-> LevelAcceptable,
             critical_steps |-> <<>>,
             high_risk_factors |-> <<>>,
             recommendations |-> << <<"periodic_quality_review">>,
                                    <<"train_operators">> >>]

\* A process whose step list is there and empty was assessed.
C14_Witness ==
    /\ risk_data # <<>>
    /\ product_info.steps = << <<>> >>
    /\ Len(risk_data[1].recommendations) = 2

\* The process is not a mapping, or has no steps key, or no step.
HasNoStep ==
    IF isinstance_dict(product_info) THEN TheSteps = <<>> ELSE TRUE

\* The process has a description of blanks only.
BlankDescription ==
    /\ isinstance_dict(product_info)
    /\ Truthy(product_info.description)
    /\ split(product_info.description[1]) = <<>>

\* Every statistic taken so far is empty.
EmptyResults ==
    /\ analysis_results \in {<<>>, << <<>> >>}
    /\ quality_report \in {<<>>, << <<>> >>}
    /\ oee_data = <<>>

\* C15 as stated: generate_batch_records returns an empty table without
\* raising for a process that is not a mapping, has no steps key or has no
\* step, and analyze_batch_trends, generate_quality_report and calculate_oee
\* return an empty result on the empty table.
C15_AsStated ==
    /\ (last_call = "generate" /\ HasNoStep) =>
            (raised = "none" /\ batch_data = <<>>)
    /\ batch_data = <<>> => EmptyResults

\* What holds of the code: the same, for a description that is not blank.
C15_GracefulUnlessBlank ==
    /\ (last_call = "generate" /\ HasNoStep /\ ~BlankDescription) =>
            (raised = "none" /\ batch_data = <<>>)
    /\ batch_data = <<>> => EmptyResults

\* The table generated for a string was empty and its report was made.
C15_GracefulWitness ==
    /\ product_info = NotADict
    /\ runs > 0
    /\ raised = "none"
    /\ batch_data = <<>>
    /\ last_call = "report"
    /\ quality_report = << <<>> >>
    /\ analysis_results = << <<>> >>

\* C16: assess_process_risk, check_gmp_compliance, calculate_process_metrics,
\* generate_batch_record_template and generate_batch_records leave the
\* process they are given as it was, and analyze_batch_trends,
\* generate_quality_report and calculate_oee the batch table.
C16_InputsUnchanged ==
    [][/\ product_info' = product_info
       /\ last_call' \in {"analyze", "report", "oee", "oee_after_generate"}
            => batch_data' = batch_data]_vars

\* Every one of the eight has run on a process of two steps and its table.
C16_Witness ==
    /\ Len(TheSteps) = 2
    /\ risk_data # <<>>
    /\ compliance_data # <<>>
    /\ metrics_data # <<>>
    /\ template_data # <<>>
    /\ batch_data # <<>>
    /\ analysis_results \notin {<<>>, << <<>> >>}
    /\ quality_report \notin {<<>>, << <<>> >>}
    /\ oee_data # <<>>

-----------------------------------------------------------------------------
(* Properties of the readings of the synthesizer *)

\* The parameters the synthesizer tracks for the process.
Tracked == tracked_params(TheSteps)

\* The triple a record holds under the key of tracked parameter k.
ReadingAt(row, k) ==
    row.readings[CHOOSE j \in 1..Len(row.readings) :
                    row.readings[j].key = param_key(Tracked[k].step, Tracked[k].param)]

\* The label holds pH and neither the temperature nor the pressure keyword.
IsAcidityLabel(param) ==
    /\ Contains(KwPH, param)
    /\ ~Contains(KwTemperature, param)
    /\ ~Contains(KwPressure, param)

\* C17 as stated: a parameter whose label holds pH and no temperature or
\* pressure keyword gets target 7.0 and is normal iff 6.5 <= actual <= 7.5.
C17_AsStated ==
    \A r \in 1..Len(batch_data), k \in 1..Len(Tracked) :
        IsAcidityLabel(Tracked[k].param) =>
            /\ ReadingAt(batch_data[r], k).target = 700
            /\ ReadingAt(batch_data[r], k).status = "normal"
                <=> /\ 650 <= ReadingAt(batch_data[r], k).actual
                    /\ ReadingAt(batch_data[r], k).actual <= 750

\* What the code does: the label is lowercased before pH is looked for, so
\* the acidity branch is never taken; without a duration keyword the
\* parameter gets target 100 and the band 95 to 105.
C17_AcidityTakenAsOther ==
    \A r \in 1..Len(batch_data), k \in 1..Len(Tracked) :
        (IsAcidityLabel(Tracked[k].param) /\ ~Contains(KwTime, Tracked[k].param)) =>
            /\ ReadingAt(batch_data[r], k).target = 10000
            /\ ReadingAt(batch_data[r], k).status = "normal"
                <=> /\ 9500 <= ReadingAt(batch_data[r], k).actual
                    /\ ReadingAt(batch_data[r], k).actual <= 10500

\* A record of the filtration step, whose second parameter is the pH.
C17_OtherWitness ==
    /\ Len(batch_data) = 2
    /\ Len(Tracked) = 3
    /\ Tracked[2].param = ParamPH
    /\ ReadingAt(batch_data[1], 2).target = 10000

\* The duration a catalog step declares equals hours hundredths of an hour.
DeclaresHours(step, hours) ==
    IF step.duration.unit = "min" THEN hours * 60 = step.duration.amount * 100
    ELSE IF step.duration.unit = "h" THEN hours = step.duration.amount * 100
    ELSE hours = step.duration.amount * 24 * 100

\* C18 as stated: the target of a parameter classified as duration is the
\* duration its step declares, in hours, so steps that declare different
\* durations get different duration targets.
C18_AsStated ==
    \A r \in 1..Len(batch_data), k \in 1..Len(Tracked) :
        param_kind(Tracked[k].param) = "duration" =>
            DeclaresHours(TheSteps[Tracked[k].step],
                          ReadingAt(batch_data[r], k).target)

\* What the code does: it reads the key shi jian, which no step of the
\* catalog has, so every duration target of a catalog step is 4.0 hours.
C18_CatalogTargetIsDefault ==
    \A r \in 1..Len(batch_data), k \in 1..Len(Tracked) :
        param_kind(Tracked[k].param) = "duration" =>
            ReadingAt(batch_data[r], k).target = 400

\* A record of an 8 hour step and a 14 day step, both with target 4.0.
C18_DefaultWitness ==
    /\ Len(batch_data) = 2
    /\ Len(TheSteps) = 2
    /\ TheSteps[1].duration = [unit |-> "h", amount |-> 8]
    /\ TheSteps[2].duration = [unit |-> "tian", amount |-> 14]
    /\ ReadingAt(batch_data[1], 2).target = 400
    /\ ReadingAt(batch_data[1], 3).target = 400

\* The keys of the triples of a record, and the keys of the tracked
\* parameters.
KeysOf(row) == {row.readings[j].key : j \in 1..Len(row.readings)}
TrackedKeys == {param_key(Tracked[k].step, Tracked[k].param) : k \in 1..Len(Tracked)}

\* The sum over the steps of min(3, number of parameters of the step).
TrackedCount ==
    LET count[k \in 0..Len(TheSteps)] ==
            IF k = 0 THEN 0
            ELSE count[k - 1] + (IF Len(TheSteps[k].params) < 3
                                    THEN Len(TheSteps[k].params) ELSE 3)
    IN  count[Len(TheSteps)]

\* C19 as stated: every record has one triple for each of the first
\* min(3, number of parameters) parameters of each step, labels unique or
\* not, so it has as many actual columns as that sum.
C19_AsStated ==
    \A r \in 1..Len(batch_data) :
        Len(batch_data[r].readings) = TrackedCount

\* What the code does: a record has one triple for each key
\* step_<i>_<first ten characters of the label> of a tracked parameter, and
\* no other.
C19_OneTriplePerKey ==
    \A r \in 1..Len(batch_data) :
        /\ KeysOf(batch_data[r]) = TrackedKeys
        /\ Len(batch_data[r].readings) = Cardinality(TrackedKeys)
        /\ Len(batch_data[r].readings) <= TrackedCount

\* A record of the step with the same label twice, and one of the step of
\* four parameters.
C19_SharedKeyWitness ==
    /\ Len(batch_data) = 2
    /\ Len(TheSteps) = 1
    /\ TheSteps[1].params = <<ParamMixingTime, ParamMixingTime>>
    /\ Len(batch_data[1].readings) = 1

\* The actual value lies in the band of the branch the parameter took.
InBand(kind, reading) ==
    IF kind = "temperature" THEN Abs(reading.actual - 2500) <= 200
    ELSE IF kind = "pressure" THEN Abs(reading.actual - 100) <= 20
    ELSE IF kind = "acidity" THEN 650 <= reading.actual /\ reading.actual <= 750
    ELSE IF kind = "duration"
        THEN 100 * Abs(reading.actual - reading.target) <= 15 * reading.target
    ELSE 9500 <= reading.actual /\ reading.actual <= 10500

\* The actual value of a duration lies exactly 15% from its target.
OnDurationBoundary(kind, reading) ==
    /\ kind = "duration"
    /\ 100 * Abs(reading.actual - reading.target) = 15 * reading.target

\* The tracked parameters whose key no other tracked parameter shares.
OwnKey(k) ==
    \A j \in 1..Len(Tracked) :
        param_key(Tracked[j].step, Tracked[j].param)
            = param_key(Tracked[k].step, Tracked[k].param)
        => Tracked[j].param = Tracked[k].param

\* C20 as stated: the status of every triple is normal iff the actual value
\* lies inside the band of its parameter type: |actual - 25| <= 2,
\* |actual - 1.0| <= 0.2, 6.5..7.5, |actual - target| <= 15% of the target,
\* 95..105.
C20_AsStated ==
    \A r \in 1..Len(batch_data), k \in 1..Len(Tracked) :
        OwnKey(k) =>
            (ReadingAt(batch_data[r], k).status = "normal"
                <=> InBand(param_kind(Tracked[k].param), ReadingAt(batch_data[r], k)))

\* What holds of the code: the same, but for a duration that lies exactly
\* 15% from its target, which is normal only if it is in the band.
C20_BandOffTheBoundary ==
    \A r \in 1..Len(batch_data), k \in 1..Len(Tracked) :
        OwnKey(k) =>
            LET kind == param_kind(Tracked[k].param)
                reading == ReadingAt(batch_data[r], k)
            IN  IF OnDurationBoundary(kind, reading)
                    THEN reading.status \in {"normal", "deviated"}
                    ELSE reading.status = "normal" <=> InBand(kind, reading)

\* A duration of 3.4 hours with the target of 4.0 hours, marked deviated.
C20_BoundaryWitness ==
    \E r \in 1..Len(batch_data), k \in 1..Len(Tracked) :
        /\ param_kind(Tracked[k].param) = "duration"
        /\ ReadingAt(batch_data[r], k).target = 400
        /\ ReadingAt(batch_data[r], k).actual = 340
        /\ ReadingAt(batch_data[r], k).status = "deviated"

-----------------------------------------------------------------------------
(* Properties of the step scores and of the findings *)

\* The points the scoring table gives a parameter label: the three keyword
\* groups add up.
TablePointsOfParam(param) ==
    (IF \/ Contains(KwTemperature, param) \/ Contains(KwPressure, param)
        \/ Contains(KwPH, param) \/ Contains(KwTime, param)
     THEN 4 ELSE 0)
    + (IF \/ Contains(KwAseptic, param) \/ Contains(KwVirus, param)
          \/ Contains(KwEndotoxin, param)
       THEN 12 ELSE 0)
    + (IF \/ Contains(KwContent, param) \/ Contains(KwPurity, param)
          \/ Contains(KwImpurity, param)
       THEN 8 ELSE 0)

\* The points the scoring table gives an equipment label: exactly one group.
TablePointsOfEquip(equip) ==
    CASE (\/ Contains(KwBioreactor, equip) \/ Contains(KwChromatography, equip)
          \/ Contains(KwLyophilizer, equip) \/ Contains(KwSterilization, equip))
            -> 8
      [] (/\ ~(\/ Contains(KwBioreactor, equip)
               \/ Contains(KwChromatography, equip)
               \/ Contains(KwLyophilizer, equip)
               \/ Contains(KwSterilization, equip))
          /\ (\/ Contains(KwFilling, equip) \/ Contains(KwFiltration, equip)
              \/ Contains(KwCentrifuge, equip)))
            -> 6
      [] OTHER -> 4

\* The base score of a step by the scoring table, in quarter points.
TableBase(step) ==
    LET ps == step.params
        es == step.equip
        p[k \in 0..Len(ps)] ==
            IF k = 0 THEN 0 ELSE p[k - 1] + TablePointsOfParam(ps[k])
        e[k \in 0..Len(es)] ==
            IF k = 0 THEN 0 ELSE e[k - 1] + TablePointsOfEquip(es[k])
    IN  p[Len(ps)] + e[Len(es)]

\* A step name with a critical-operation keyword.
HasCriticalName(step) ==
    \/ Contains(KwSterilization, step.name) \/ Contains(KwAseptic, step.name)
    \/ Contains(KwFilling, step.name) \/ Contains(KwChromatography, step.name)
    \/ Contains(KwVirus, step.name)

\* C21: the base score of a step is the sum over its parameters of +1, +3
\* and +2 for the three keyword groups (added up for one parameter) plus, for
\* each equipment item, exactly one of +2, +1.5 and +1; so it is at least the
\* number of equipment items, and 0 for a step with neither.  The base score
\* is read off the total of a process of one step whose name is not critical.
C21_StepBaseScore ==
    (/\ risk_data # <<>>
     /\ Len(TheSteps) = 1
     /\ ~HasCriticalName(TheSteps[1])) =>
        LET base == risk_data[1].total_risk_score
            step == TheSteps[1]
        IN  /\ base = TableBase(step)
            /\ base >= Len(step.equip) * ScoreDen
            /\ (step.params = <<>> /\ step.equip = <<>>) => base = 0

\* A step with a parameter of two groups (virus, temperature) and an
\* equipment item of two groups (sterilization, filtration): 4 + 2 points.
C21_Witness ==
    /\ risk_data # <<>>
    /\ Len(TheSteps) = 1
    /\ TheSteps[1].name = NameMixing
    /\ TheSteps[1].params = <<ParamVirusTemperature>>
    /\ TheSteps[1].equip = <<EquipSterilizingFilter>>
    /\ risk_data[1].total_risk_score = 6 * ScoreDen

\* The numbers of the steps with a critical name, in step order.
CriticalNumbers ==
    LET n == Len(TheSteps)
        idx[k \in 0..n] ==
            IF k = 0 THEN <<>>
            ELSE IF HasCriticalName(TheSteps[k]) THEN Append(idx[k - 1], k)
            ELSE idx[k - 1]
    IN  idx[n]

\* Twice the weighted score of a step by the scoring table.
TableWeightedTwice(step) ==
    IF HasCriticalName(step) THEN 3 * TableBase(step) ELSE 2 * TableBase(step)

\* C22: critical_steps holds exactly the steps whose name has a critical
\* keyword, in step order, each with its 1-based step number and a risk
\* score of 1.5 times its base score; the total is the sum of the base
\* scores of the other steps and of 1.5 times the base scores of these.
C22_CriticalSteps ==
    risk_data # <<>> =>
        LET crit == risk_data[1].critical_steps
            n == Len(TheSteps)
            sum[k \in 0..n] ==
                IF k = 0 THEN 0 ELSE sum[k - 1] + TableWeightedTwice(TheSteps[k])
        IN  /\ Len(crit) = Len(CriticalNumbers)
            /\ \A j \in 1..Len(crit) :
                /\ crit[j].step_number = CriticalNumbers[j]
                /\ crit[j].step = TheSteps[CriticalNumbers[j]].name
                /\ 2 * crit[j].risk_score
                    = 3 * TableBase(TheSteps[CriticalNumbers[j]])
            /\ 2 * risk_data[1].total_risk_score = sum[n]

\* A mixing step followed by a sterilization step: the one critical step is
\* number 2 with 1.5 * 6 = 9 points, and the total is 1 + 9 = 10.
C22_Witness ==
    /\ risk_data # <<>>
    /\ Len(TheSteps) = 2
    /\ TheSteps[1].name = NameMixing
    /\ TheSteps[2].name = NameSterilization
    /\ Len(risk_data[1].critical_steps) = 1
    /\ risk_data[1].critical_steps[1].step_number = 2
    /\ risk_data[1].critical_steps[1].risk_score = 9 * ScoreDen
    /\ risk_data[1].total_risk_score = 10 * ScoreDen

\* The numbers of the steps whose weighted score is above 5, in step order.
HighNumbers ==
    LET n == Len(TheSteps)
        idx[k \in 0..n] ==
            IF k = 0 THEN <<>>
            ELSE IF TableWeightedTwice(TheSteps[k]) > 2 * 5 * ScoreDen
                THEN Append(idx[k - 1], k)
            ELSE idx[k - 1]
    IN  idx[n]

\* C23: high_risk_factors holds a step iff its score after the weight of a
\* critical step is strictly above 5 (a score of exactly 5 is not listed, a
\* critical step of base 3.5 is, at 5.25), and the factor list of an entry
\* names no factor twice.
C23_HighRiskFactors ==
    risk_data # <<>> =>
        LET high == risk_data[1].high_risk_factors
        IN  /\ Len(high) = Len(HighNumbers)
            /\ \A j \in 1..Len(high) :
                /\ high[j].step = TheSteps[HighNumbers[j]].name
                /\ 2 * high[j].risk_score
                    = TableWeightedTwice(TheSteps[HighNumbers[j]])
                /\ \A f \in BagToSet(high[j].factors) :
                    CopiesIn(f, high[j].factors) = 1

\* A step of exactly 5 points (sterility 3, temperature 1, tank 1, name not
\* critical) was assessed and is not listed.
C23_Witness ==
    /\ risk_data # <<>>
    /\ Len(TheSteps) = 1
    /\ TheSteps[1] = Step(NameMixing, <<ParamSterility, ParamTemperature>>,
                          <<EquipTank>>)
    /\ risk_data[1].total_risk_score = 5 * ScoreDen
    /\ risk_data[1].high_risk_factors = <<>>

\* A critical step of base 3.5 (purity 2, filter 1.5) is listed at 5.25.
C23_WeightedWitness ==
    /\ risk_data # <<>>
    /\ Len(TheSteps) = 1
    /\ TheSteps[1] = Step(NameSterilization, <<ParamPurity>>, <<EquipFilter>>)
    /\ Len(risk_data[1].high_risk_factors) = 1
    /\ risk_data[1].high_risk_factors[1].risk_score = 5 * ScoreDen + 1

\* A listed step with two temperature parameters names the temperature
\* factor once.
C23_RepeatedKeywordWitness ==
    /\ risk_data # <<>>
    /\ Len(TheSteps) = 1
    /\ TheSteps[1].params = <<ParamTemperature, ParamTemperature>>
    /\ Len(risk_data[1].high_risk_factors) = 1
    /\ CopiesIn("temperature_control_risk",
                risk_data[1].high_risk_factors[1].factors) = 1

\* The sterility rule applies to a step: a sterilization or aseptic name and
\* no parameter with a sterility keyword.
LacksSterilityControl(step) ==
    /\ (Contains(KwSterilization, step.name) \/ Contains(KwAseptic, step.name))
    /\ \A k \in 1..Len(step.params) :
        /\ ~Contains(KwAseptic, step.params[k])
        /\ ~Contains(KwSterilization, step.params[k])

\* The separation rule applies to a step: a filtration, chromatography or
\* purification name and no parameter with a pressure or flow-rate keyword.
LacksProcessControl(step) ==
    /\ \/ Contains(KwFiltration, step.name)
       \/ Contains(KwChromatography, step.name)
       \/ Contains(KwPurification, step.name)
    /\ \A k \in 1..Len(step.params) :
        /\ ~Contains(KwPressure, step.params[k])
        /\ ~Contains(KwFlow, step.params[k])

\* The description is empty or missing.
DescriptionMissing ==
    product_info.description = <<>> \/ product_info.description = << <<>> >>

\* The findings the rules call for, as pairs of severity and step
\* reference: the steps in step order, then the description.
RuleFindings ==
    LET n == Len(TheSteps)
        of_step(step) ==
            (IF LacksSterilityControl(step)
                THEN << <<"severe", step.name>> >> ELSE <<>>)
            \o (IF LacksProcessControl(step)
                THEN << <<"moderate", step.name>> >> ELSE <<>>)
        upto[k \in 0..n] ==
            IF k = 0 THEN <<>> ELSE upto[k - 1] \o of_step(TheSteps[k])
    IN  upto[n] \o (IF DescriptionMissing
                        THEN << <<"moderate", WholeProcess>> >> ELSE <<>>)

\* C24: check_gmp_compliance emits a severe finding for a step iff the
\* sterility rule applies to it, a moderate finding for a step iff the
\* separation rule applies to it, and one moderate finding on the whole
\* process iff the description is empty or missing; the step findings come in
\* step order and the missing-description finding last.
C24_ComplianceRules ==
    compliance_data # <<>> =>
        LET items == compliance_data[1].compliance_items
        IN  /\ Len(items) = Len(RuleFindings)
            /\ \A j \in 1..Len(items) :
                <<items[j].severity, items[j].step>> = RuleFindings[j]

\* A filtration step without pressure or flow rate, then a sterilization
\* step that declares a sterility parameter, and no description: the
\* findings are the moderate one of step 1 and the one of the description.
C24_Witness ==
    /\ compliance_data # <<>>
    /\ Len(TheSteps) = 2
    /\ TheSteps[1].name = NameFiltration
    /\ TheSteps[2] = Step(NameSterilization, <<ParamTemperature, ParamSterility>>,
                          <<EquipSterilizer>>)
    /\ DescriptionMissing
    /\ Len(compliance_data[1].compliance_items) = 2
    /\ compliance_data[1].compliance_items[1].step = NameFiltration
    /\ compliance_data[1].compliance_items[2].step = WholeProcess

\* A sterilization step whose only sterility parameter is its sterilization
\* time has no finding.
C24_SterilizationTimeWitness ==
    /\ compliance_data # <<>>
    /\ Len(TheSteps) = 1
    /\ TheSteps[1].name = NameSterilization
    /\ TheSteps[1].params = <<ParamSterilizationTime>>
    /\ compliance_data[1].compliance_items = <<>>

\* The positions of the findings that refer to steps.
StepFindingPositions ==
    {j \in 1..Len(compliance_data[1].compliance_items) :
        compliance_data[1].compliance_items[j].step # WholeProcess}

\* C30: a step gets at most one finding per rule, and a step to which both
\* rules apply gets two, the severe one first; the findings number at most
\* 2 * (number of steps) + 1, none is minor, and the severe and the moderate
\* counts add up to the number of findings.
C30_FindingsBound ==
    compliance_data # <<>> =>
        LET items == compliance_data[1].compliance_items
            counts == compliance_data[1].severity_counts
            n == Len(TheSteps)
            both == {k \in 1..n : /\ LacksSterilityControl(TheSteps[k])
                                  /\ LacksProcessControl(TheSteps[k])}
        IN  /\ Len(items) <= 2 * n + 1
            /\ Cardinality(StepFindingPositions) <= 2 * n
            /\ counts.minor = 0
            /\ counts.severe + counts.moderate = Len(items)
            /\ (n = 1 /\ both = {1}) =>
                /\ Cardinality(StepFindingPositions) = 2
                /\ items[1].severity = "severe"
                /\ items[2].severity = "moderate"
            /\ (both = 1..n) =>
                \A k \in 1..n :
                    /\ items[2 * k - 1].severity = "severe"
                    /\ items[2 * k - 1].step = TheSteps[k].name
                    /\ items[2 * k].severity = "moderate"
                    /\ items[2 * k].step = TheSteps[k].name

\* Two aseptic filtration steps without parameters and no description: five
\* findings, 2 * 2 + 1.
C30_Witness ==
    /\ compliance_data # <<>>
    /\ Len(TheSteps) = 2
    /\ TheSteps[1].name = NameAsepticFiltration
    /\ TheSteps[2].name = NameAsepticFiltration
    /\ DescriptionMissing
    /\ Len(compliance_data[1].compliance_items) = 5
    /\ compliance_data[1].severity_counts
        = [severe |-> 2, moderate |-> 3, minor |-> 0]

-----------------------------------------------------------------------------
(* Properties of the quality report *)

\* The records of the table whose overall status is the pass sentinel.
PassedRecords == {k \in 1..Len(batch_data) : batch_data[k].overall_status = "pass"}

\* A report was made of a table with records.
Reported == quality_report # <<>> /\ quality_report[1] # <<>>

\* C25: for a table with records generate_quality_report reports the number
\* of records as total_batches, the number of records whose overall status is
\* the pass sentinel as passed_batches and the number of all other records as
\* failed_batches, so that passed_batches + failed_batches = total_batches.
C25_CountsPartition ==
    (quality_report # <<>> /\ batch_data # <<>>) =>
        /\ quality_report[1] # <<>>
        /\ LET summary == quality_report[1][1].summary
           IN  /\ summary.total_batches = Len(batch_data)
               /\ summary.passed_batches = Cardinality(PassedRecords)
               /\ summary.failed_batches
                    = Cardinality((1..Len(batch_data)) \ PassedRecords)
               /\ summary.passed_batches + summary.failed_batches
                    = summary.total_batches

\* A table of three records, the first under investigation: 2 passed, 1 not.
C25_Witness ==
    /\ Reported
    /\ Len(batch_data) = 3
    /\ batch_data[1].overall_status = "investigate"
    /\ quality_report[1][1].summary.passed_batches = 2
    /\ quality_report[1][1].summary.failed_batches = 1

\* The values of column c of the table.
ColumnValues(c) == [k \in 1..Len(batch_data) |-> batch_data[k].readings[c].actual]

\* The coefficient of variation of column c: 0 for a column of mean 0, else
\* std / mean, which is no number for a table of one record.
CvIsNumber(c) == Len(batch_data) >= 2 \/ series_sum(ColumnValues(c)) = 0

\* It is a number below 1 / inverse: below 5% for 20, below 10% for 10.
CvBelow(c, inverse) ==
    LET n == Len(batch_data)
        total == series_sum(ColumnValues(c))
        squares == series_sum([k \in 1..n |-> ColumnValues(c)[k] * ColumnValues(c)[k]])
    IN  /\ CvIsNumber(c)
        /\ \/ total = 0
           \/ inverse * inverse * n * (n * squares - total * total)
                < (n - 1) * total * total
CvAtLeast(c, inverse) == CvIsNumber(c) /\ ~CvBelow(c, inverse)

\* The columns of actual values the report classifies: the first five.
ClassifiedColumns ==
    LET columns == Len(batch_data[1].readings)
    IN  1..(IF columns < 5 THEN columns ELSE 5)

\* The entries of the stability part are those of the classified columns.
OnlyFirstFive ==
    /\ Len(StabilityEntries) = Cardinality(ClassifiedColumns)
    /\ \A c \in ClassifiedColumns :
        StabilityEntries[c].name = param_name(batch_data[1].readings[c].key)

\* The tiers are those of the coefficients of variation.
TiersByCv ==
    \A c \in ClassifiedColumns :
        LET tier == StabilityEntries[c].stats.stability
        IN  /\ (tier = "high") <=> CvBelow(c, 20)
            /\ (tier = "medium") <=> (CvAtLeast(c, 20) /\ CvBelow(c, 10))
            /\ (tier = "low") <=> CvAtLeast(c, 10)

\* The recommendations the report is to hold, in their order.
DueRecommendations ==
    LET summary == quality_report[1][1].summary
        yields == series_sum([k \in 1..Len(batch_data) |-> batch_data[k].yield_percent])
        low == SelectSeq(StabilityEntries, LAMBDA e : e.stats.stability = "low")
    IN  (IF summary.failed_batches > 0
            THEN << <<"investigate", summary.failed_batches>> >> ELSE <<>>)
        \o (IF summary.yield_average < 90 * 100
            THEN << <<"optimize">> >> ELSE <<>>)
        \o [k \in 1..Len(low) |-> <<"strengthen", low[k].name>>]

\* C26: generate_quality_report classifies only the first five columns of
\* actual values, each high iff its CV < 5%, medium iff 5% <= CV < 10% and low
\* iff CV >= 10%; its recommendations are, in this order, the investigate
\* message iff failed_batches > 0, the optimize message iff the yield average
\* is below 90, and one strengthen message for each parameter tiered low.
C26_AsStated ==
    Reported =>
        /\ OnlyFirstFive
        /\ TiersByCv
        /\ quality_report[1][1].recommendations = DueRecommendations

\* The same for the tables of two or more records, whose coefficients of
\* variation are numbers.
C26_TiersFromTwoRecords ==
    (Reported /\ Len(batch_data) >= 2) =>
        /\ OnlyFirstFive
        /\ TiersByCv
        /\ quality_report[1][1].recommendations = DueRecommendations

\* A table of six columns whose sixth swings by more than 10%: five
\* entries, all high, and no recommendation.
C26_SixColumnsWitness ==
    /\ Reported
    /\ Len(batch_data[1].readings) = 6
    /\ CvAtLeast(6, 10)
    /\ Len(StabilityEntries) = 5
    /\ \A c \in 1..5 : StabilityEntries[c].stats.stability = "high"
    /\ quality_report[1][1].recommendations = <<>>

\* A table of one record: its column is tiered low and a strengthen message
\* is made, although its coefficient of variation is no number.
C26_OneRecordWitness ==
    /\ Reported
    /\ Len(batch_data) = 1
    /\ StabilityEntries[1].stats.cv_percent.nan
    /\ StabilityEntries[1].stats.stability = "low"
    /\ quality_report[1][1].recommendations
        = << <<"strengthen", StabilityEntries[1].name>> >>

-----------------------------------------------------------------------------
(* calculate_oee run on a batch table, with the generator anywhere *)

\* Yields the synthesizer can give, in tenths: the two ends of 85..98, values
\* halfway between two whole percents, and values off the grid of percents.
OeeYields == {850, 855, 875, 913, 976, 980}

\* Tables of one and of two records.
OeeTables ==
    {<<StatRow(1, y, "pass", <<100>>)>> : y \in OeeYields}
    \cup {<<StatRow(1, y, "pass", <<100>>), StatRow(2, z, "pass", <<100>>)>> :
            y \in OeeYields, z \in OeeYields}

InitOee ==
    /\ product_info = NoProduct
    /\ RiskIdle
    /\ today = 0
    /\ np_random \in 0..(RngPeriod - 1)
    /\ batches_asked = 0
    /\ batch_data \in OeeTables
    /\ raised = "none"
    /\ oee_data = <<>>
    /\ last_call = "none"
    /\ runs = 0
    /\ oee_calls = 0
    /\ rng_at_generate = 0
    /\ first_batches = <<>>
    /\ first_oee = <<>>
    /\ analysis_results = <<>>
    /\ quality_report = <<>>
    /\ metrics_data = <<>>
    /\ template_data = <<>>

NextOee == CalculateOee

SpecOee == InitOee /\ [][NextOee]_vars

-----------------------------------------------------------------------------
(* Properties of the OEE figures *)

\* The yields of the table add up to this many tenths of a percent.
YieldTotal == series_sum([k \in 1..Len(batch_data) |-> batch_data[k].yield_percent])

\* The loss percentages are 100 minus the reported percentages.
LossesComplement ==
    LET r == oee_data[1]
    IN  /\ r.loss_analysis.availability_loss = 100 * 10 - r.availability_percent
        /\ r.loss_analysis.performance_loss = 100 * 10 - r.performance_percent
        /\ r.loss_analysis.quality_loss = 100 - r.quality_percent

\* C27: for a table with records calculate_oee reports the mean of
\* yield_percent as the quality percentage, availability x performance x
\* quality / 10000 of the reported percentages as the OEE percentage, and 100
\* minus the reported percentages as the losses.
C27_AsStated ==
    (oee_data # <<>> /\ batch_data # <<>>) =>
        LET r == oee_data[1]
        IN  /\ r.quality_percent * 10 * Len(batch_data) = YieldTotal
            /\ r.oee_percent * 10000
                = r.availability_percent * r.performance_percent * r.quality_percent
            /\ LossesComplement

\* What is reported: the whole percent next to the yield mean, the product of
\* the reported percentages to the hundredth of a percent, and the losses.
C27_QualityToWholePercent ==
    (oee_data # <<>> /\ batch_data # <<>>) =>
        LET r == oee_data[1]
            product == r.availability_percent * r.performance_percent * r.quality_percent
            off == r.quality_percent * 10 * Len(batch_data) - YieldTotal
        IN  /\ 2 * off <= 10 * Len(batch_data)
            /\ 2 * off >= -(10 * Len(batch_data))
            /\ 2 * (r.oee_percent * 10000 - product) <= 10000
            /\ 2 * (r.oee_percent * 10000 - product) >= -10000
            /\ LossesComplement

\* A table of one record of yield 91.3: the quality reported is 91.
C27_WholePercentWitness ==
    /\ oee_data # <<>>
    /\ Len(batch_data) = 1
    /\ batch_data[1].yield_percent = 913
    /\ oee_data[1].quality_percent = 91
    /\ oee_data[1].loss_analysis.quality_loss = 9

C28_LowestWitness ==
    /\ oee_data # <<>>
    /\ oee_data[1].availability_percent = 850
    /\ oee_data[1].performance_percent = 900
    /\ oee_data[1].quality_percent = 85
    /\ oee_data[1].oee_percent \in {6502, 6503}
    /\ oee_data[1].oee_level = "fair"

-----------------------------------------------------------------------------
(* Properties of the synthesizer across batch counts *)

\* The fields of a record other than its product name and its dates.
ListedFields ==
    {"batch_number", "batch_size", "line", "shift", "operator", "supervisor",
     "yield_percent", "quality_status", "overall_status", "readings"}

\* The records both the remembered table and the present one hold.
SharedBatches ==
    1..(IF Len(first_batches[1].records) < Len(batch_data)
            THEN Len(first_batches[1].records) ELSE Len(batch_data))

\* C29: for a fixed process and batch counts N <= M, record n (1 <= n <= N)
\* of generate_batch_records(P, N) has the batch number, batch size, line,
\* shift, operator, supervisor, yield, quality status, overall status and
\* parameter target, actual and status of record n of
\* generate_batch_records(P, M): only the two dates may differ.
C29_PrefixStability ==
    (/\ last_call = "generate"
     /\ raised = "none"
     /\ first_batches # <<>>) =>
        \A n \in SharedBatches : \A f \in ListedFields :
            batch_data[n][f] = first_batches[1].records[n][f]

\* A table of one record is remembered and a table of more records, made
\* with the generator elsewhere, is at hand: its first record is dated
\* before the day of the call, as the one of the shorter table is not.
C29_Witness ==
    /\ last_call = "generate"
    /\ raised = "none"
    /\ first_batches # <<>>
    /\ first_batches[1].num_batches = 1
    /\ Len(first_batches[1].records) = 1
    /\ first_batches[1].rng # rng_at_generate
    /\ Len(batch_data) > 1
    /\ Len(batch_data[1].readings) >= 2
    /\ batch_data[1].manufacturing_date # strftime(today)
    /\ batch_data[Len(batch_data)].manufacturing_date = strftime(today)

====
